---- MODULE Spec2Model ----
(***************************************************************************)
(* A model of jrtools' quick_chart module: Series, Chart and Page.         *)
(*                                                                         *)
(* Python strings are sequences of one-character strings, so that          *)
(* json.dumps, str.replace and the % formatting are computed character by  *)
(* character.  Python dicts are insertion-ordered sequences of key/value   *)
(* pairs.  Series objects live in a heap (the variable series) and are     *)
(* referred to by their index, because the chart description shares the    *)
(* Series' own dict.                                                       *)
(***************************************************************************)
EXTENDS Integers, Sequences, FiniteSets, TLC

VARIABLES
    series,   \* heap of Series objects, indexed by identity
    charts,   \* the Chart objects, by identity
    page,     \* the Page object
    ret,      \* what the most recent call returned or raised
    files,    \* the file system: the text of each file that exists, by name
    events    \* what the most recent call did to the world outside, in order

vars == <<series, charts, page, ret, files, events>>

-----------------------------------------------------------------------------
(* String literals of the source, as character sequences.                  *)

K_chart ==
    <<"c", "h", "a", "r", "t">>

K_type ==
    <<"t", "y", "p", "e">>

K_zoomType ==
    <<"z", "o", "o", "m", "T", "y", "p", "e">>

K_credits ==
    <<"c", "r", "e", "d", "i", "t", "s">>

K_text ==
    <<"t", "e", "x", "t">>

K_href ==
    <<"h", "r", "e", "f">>

K_title ==
    <<"t", "i", "t", "l", "e">>

K_subtitle ==
    <<"s", "u", "b", "t", "i", "t", "l", "e">>

K_xAxis ==
    <<"x", "A", "x", "i", "s">>

K_yAxis ==
    <<"y", "A", "x", "i", "s">>

K_tooltip ==
    <<"t", "o", "o", "l", "t", "i", "p">>

K_plotOptions ==
    <<"p", "l", "o", "t", "O", "p", "t", "i", "o", "n", "s">>

K_series ==
    <<"s", "e", "r", "i", "e", "s">>

K_name ==
    <<"n", "a", "m", "e">>

K_data ==
    <<"d", "a", "t", "a">>

K_marker ==
    <<"m", "a", "r", "k", "e", "r">>

K_symbol ==
    <<"s", "y", "m", "b", "o", "l">>

K_radius ==
    <<"r", "a", "d", "i", "u", "s">>

T_line ==
    <<"l", "i", "n", "e">>

T_x ==
    <<"x">>

T_jrtools ==
    <<"j", "r", "t", "o", "o", "l", "s">>

T_href ==
    <<"h", "t", "t", "p", ":", "/", "/", "g", "i", "t", "h", "u", "b", ".",
    "c", "o", "m", "/", "j", "r", "s", "e", "t", "i", "/", "j", "r", "t",
    "o", "o", "l", "s">>

T_ChartTitle ==
    <<"C", "h", "a", "r", "t", " ", "T", "i", "t", "l", "e">>

T_linear ==
    <<"l", "i", "n", "e", "a", "r">>

T_XAxisText ==
    <<"N", "e", "e", "d", " ", "t", "o", " ", "s", "e", "t", " ", "X", " ",
    "a", "x", "i", "s", " ", "t", "e", "x", "t">>

T_YAxisText ==
    <<"N", "e", "e", "d", " ", "t", "o", " ", "s", "e", "t", " ", "Y", " ",
    "a", "x", "i", "s", " ", "t", "e", "x", "t">>

T_placeholder ==
    <<"_", "p", "l", "a", "c", "e", "h", "o", "l", "d", "e", "r">>

T_data ==
    <<"_", "d", "a", "t", "a">>

T_null ==
    <<"n", "u", "l", "l">>

T_var ==
    <<"v", "a", "r", " ">>

T_assign ==
    <<" ", "=", " ">>

T_circle ==
    <<"c", "i", "r", "c", "l", "e">>

H_doctype ==
    <<"<", "!", "D", "O", "C", "T", "Y", "P", "E", " ", "h", "t", "m", "l",
    ">", "\n">>

H_html ==
    <<"<", "h", "t", "m", "l", ">", "\n">>

H_head ==
    <<"<", "h", "e", "a", "d", ">", "\n">>

H_jquery ==
    <<"<", "s", "c", "r", "i", "p", "t", " ", "s", "r", "c", "=", "\"",
    "h", "t", "t", "p", ":", "/", "/", "a", "j", "a", "x", ".", "g", "o",
    "o", "g", "l", "e", "a", "p", "i", "s", ".", "c", "o", "m", "/", "a",
    "j", "a", "x", "/", "l", "i", "b", "s", "/", "j", "q", "u", "e", "r",
    "y", "/", "1", ".", "8", ".", "2", "/", "j", "q", "u", "e", "r", "y",
    ".", "m", "i", "n", ".", "j", "s", "\"", ">", "<", "/", "s", "c", "r",
    "i", "p", "t", ">", "\n">>

H_highcharts ==
    <<"<", "s", "c", "r", "i", "p", "t", " ", "s", "r", "c", "=", "\"",
    "h", "t", "t", "p", ":", "/", "/", "c", "o", "d", "e", ".", "h", "i",
    "g", "h", "c", "h", "a", "r", "t", "s", ".", "c", "o", "m", "/", "h",
    "i", "g", "h", "c", "h", "a", "r", "t", "s", ".", "j", "s", "\"", ">",
    "<", "/", "s", "c", "r", "i", "p", "t", ">", "\n">>

H_head_end ==
    <<"<", "/", "h", "e", "a", "d", ">", "\n">>

H_body ==
    <<"<", "b", "o", "d", "y", ">", "\n">>

H_h1 ==
    <<"<", "h", "1", " ", "s", "t", "y", "l", "e", "=", "\"", "t", "e",
    "x", "t", "-", "a", "l", "i", "g", "n", ":", "c", "e", "n", "t", "e",
    "r", ";", "\"", ">">>

H_h1_end ==
    <<"<", "/", "h", "1", ">", "\n">>

H_body_end ==
    <<"\n", "\n", "<", "/", "b", "o", "d", "y", ">", "\n", "\n">>

H_html_end ==
    <<"<", "/", "h", "t", "m", "l", ">">>

H_div_id ==
    <<" ", " ", "<", "d", "i", "v", " ", "i", "d", "=", "\"", "c", "o",
    "n", "t", "a", "i", "n", "e", "r">>

H_div_style ==
    <<"\"", " ", "s", "t", "y", "l", "e", "=", "\"", "d", "i", "s", "p",
    "l", "a", "y", ":", "b", "l", "o", "c", "k", ";", "m", "a", "r", "g",
    "i", "n", "-", "l", "e", "f", "t", ":", "a", "u", "t", "o", ";", "m",
    "a", "r", "g", "i", "n", "-", "r", "i", "g", "h", "t", ":", " ", "a",
    "u", "t", "o", ";", " ", "w", "i", "d", "t", "h", ":">>

H_div_height ==
    <<"p", "x", ";", "h", "e", "i", "g", "h", "t", ":">>

H_div_end ==
    <<"p", "x", ";", "\"", ">", "<", "/", "d", "i", "v", ">", "\n">>

H_script ==
    <<"<", "s", "c", "r", "i", "p", "t", ">", "\n">>

H_function ==
    <<"$", "(", "f", "u", "n", "c", "t", "i", "o", "n", " ", "(", ")", " ",
    "{", "\n">>

H_container ==
    <<"$", "(", "\"", "#", "c", "o", "n", "t", "a", "i", "n", "e", "r">>

H_highcharts_call ==
    <<"\"", ")", ".", "h", "i", "g", "h", "c", "h", "a", "r", "t", "s",
    "(", "\n">>

H_call_end ==
    <<")", ";", "\n">>

H_function_end ==
    <<"}", ")", ";", "\n">>

H_script_end ==
    <<"<", "/", "s", "c", "r", "i", "p", "t", ">", "\n">>

T_ChartTest ==
    <<"C", "h", "a", "r", "t", " ", "T", "e", "s", "t">>

N_3C48 ==
    <<"3", "C", "4", "8">>

N_a_b ==
    <<"a", " ", "b">>

N_a_b_us ==
    <<"a", "_", "b">>

N_quote ==
    <<"5", "\"">>

N_like_placeholder ==
    <<"a", "_", "b", "_", "p", "l", "a", "c", "e", "h", "o", "l", "d", "e",
    "r">>

TitleEndsLikePlaceholder ==
    <<"s", "e", "e", " ", "\"", "a", "_", "b", "_", "p", "l", "a", "c",
    "e", "h", "o", "l", "d", "e", "r">>

TitleHoldsPlaceholder ==
    <<"a", "_", "b", "_", "p", "l", "a", "c", "e", "h", "o", "l", "d", "e",
    "r", "?">>

-----------------------------------------------------------------------------
(* Python values.  A value is tagged by t: None, a str, an int, a float    *)
(* with an integral value, a dict, a list, or a reference to the _series   *)
(* dict of the Series object with that identity.                           *)

PyNone == [t |-> "null"]
PyStr(s) == [t |-> "str", s |-> s]
PyInt(n) == [t |-> "int", n |-> n]
PyFloat(n) == [t |-> "float", n |-> n]
PyDict(items) == [t |-> "dict", items |-> items]
PyList(items) == [t |-> "list", items |-> items]
SeriesRef(id) == [t |-> "ref", id |-> id]

IsNone(v) == v.t = "null"

\* k in d
DictHas(d, k) == \E i \in 1..Len(d.items) : d.items[i].k = k

\* d[k]
DictGet(d, k) ==
    d.items[CHOOSE i \in 1..Len(d.items) : d.items[i].k = k].v

\* d[k] = v: an existing key keeps its place, a new key goes last
DictSet(d, k, v) ==
    IF DictHas(d, k)
    THEN [d EXCEPT !.items =
            [i \in 1..Len(@) |-> IF @[i].k = k THEN [k |-> k, v |-> v] ELSE @[i]]]
    ELSE [d EXCEPT !.items = Append(@, [k |-> k, v |-> v])]

\* d.pop(k, None)
DictPop(d, k) ==
    LET keep(e) == e.k # k
    IN  [d EXCEPT !.items = SelectSeq(@, keep)]

\* the keys of d, in order
DictKeys(d) == [i \in 1..Len(d.items) |-> d.items[i].k]

-----------------------------------------------------------------------------
(* Python string operations.                                               *)

Digits == <<"0", "1", "2", "3", "4", "5", "6", "7", "8", "9">>

\* c.isdigit()
isdigit(c) == \E i \in 1..Len(Digits) : Digits[i] = c

\* '%d' % n
RECURSIVE IntToText(_)
IntToText(n) ==
    IF n < 0 THEN <<"-">> \o IntToText(-n)
    ELSE IF n < 10 THEN <<Digits[n + 1]>>
    ELSE IntToText(n \div 10) \o <<Digits[(n % 10) + 1]>>

\* the places where old occurs in s
Occurrences(s, old) ==
    {i \in 1..(Len(s) - Len(old) + 1) :
        /\ s[i] = old[1]
        /\ SubSeq(s, i, i + Len(old) - 1) = old}

SetMin(S) == CHOOSE m \in S : \A o \in S : m <= o

RECURSIVE ReplaceFrom(_, _, _, _, _)
ReplaceFrom(s, old, new, occ, pos) ==
    LET left == {i \in occ : i >= pos}
    IN  IF left = {} THEN SubSeq(s, pos, Len(s))
        ELSE LET i == SetMin(left)
             IN  SubSeq(s, pos, i - 1) \o new
                   \o ReplaceFrom(s, old, new, occ, i + Len(old))

\* s.replace(old, new), old not empty: the occurrences are taken from the
\* left and do not overlap
StrReplace(s, old, new) == ReplaceFrom(s, old, new, Occurrences(s, old), 1)

\* (' ' * num_spaces)
RECURSIVE Spaces(_)
Spaces(n) == IF n = 0 THEN <<>> ELSE <<" ">> \o Spaces(n - 1)

\* s.split('\n')
RECURSIVE SplitLines(_)
SplitLines(s) ==
    LET nl == {i \in 1..Len(s) : s[i] = "\n"}
    IN  IF nl = {} THEN <<s>>
        ELSE LET i == SetMin(nl)
             IN  <<SubSeq(s, 1, i - 1)>> \o SplitLines(SubSeq(s, i + 1, Len(s)))

\* str(x) of a number
NumStr(v) ==
    IF v.t = "float" THEN IntToText(v.n) \o <<".", "0">> ELSE IntToText(v.n)

\* str(x) of a number or of a (nested) list of numbers
RECURSIVE PyRepr(_)
RECURSIVE PyReprItems(_, _)
PyReprItems(items, i) ==
    IF i > Len(items) THEN <<>>
    ELSE (IF i > 1 THEN <<",", " ">> ELSE <<>>)
           \o PyRepr(items[i]) \o PyReprItems(items, i + 1)
PyRepr(v) ==
    IF v.t = "list" THEN <<"[">> \o PyReprItems(v.items, 1) \o <<"]">>
    ELSE NumStr(v)

-----------------------------------------------------------------------------
(* json.dumps(obj, indent=2).                                              *)

\* one character of a string, as json.dumps writes it (ensure_ascii)
EscapeChar(c) ==
    IF c = "\"" THEN <<"\\", "\"">>
    ELSE IF c = "\\" THEN <<"\\", "\\">>
    ELSE IF c = "\n" THEN <<"\\", "n">>
    ELSE <<c>>

RECURSIVE EscapeFrom(_, _)
EscapeFrom(s, i) ==
    IF i > Len(s) THEN <<>> ELSE EscapeChar(s[i]) \o EscapeFrom(s, i + 1)

\* a str as a JSON string literal
EncodeString(s) == <<"\"">> \o EscapeFrom(s, 1) \o <<"\"">>

NewlineIndent(level) == <<"\n">> \o Spaces(2 * level)

RECURSIVE Dumps(_, _, _)
RECURSIVE DumpItems(_, _, _, _)
RECURSIVE DumpElems(_, _, _, _)
DumpItems(items, i, level, heap) ==
    IF i > Len(items) THEN <<>>
    ELSE (IF i > 1 THEN <<",">> ELSE <<>>) \o NewlineIndent(level)
           \o EncodeString(items[i].k) \o <<":", " ">>
           \o Dumps(items[i].v, level, heap)
           \o DumpItems(items, i + 1, level, heap)
DumpElems(items, i, level, heap) ==
    IF i > Len(items) THEN <<>>
    ELSE (IF i > 1 THEN <<",">> ELSE <<>>) \o NewlineIndent(level)
           \o Dumps(items[i], level, heap)
           \o DumpElems(items, i + 1, level, heap)
\* v written at nesting depth level; a reference is followed into the heap
Dumps(v, level, heap) ==
    CASE v.t = "null" -> T_null
      [] v.t = "str" -> EncodeString(v.s)
      [] v.t = "int" -> IntToText(v.n)
      [] v.t = "float" -> NumStr(v)
      [] v.t = "ref" -> Dumps(heap[v.id]._series, level, heap)
      [] v.t = "dict" ->
            IF v.items = <<>> THEN <<"{", "}">>
            ELSE <<"{">> \o DumpItems(v.items, 1, level + 1, heap)
                   \o NewlineIndent(level) \o <<"}">>
      [] v.t = "list" ->
            IF v.items = <<>> THEN <<"[", "]">>
            ELSE <<"[">> \o DumpElems(v.items, 1, level + 1, heap)
                   \o NewlineIndent(level) \o <<"]">>

-----------------------------------------------------------------------------
(* class Series                                                            *)

\* Series(name, data, marker)
Series__init__(name, data, marker) ==
    LET s0 == DictSet(PyDict(<<>>), K_name, PyStr(name))
        s1 == DictSet(s0, K_data,
                      PyStr(StrReplace(name, <<" ">>, <<"_">>) \o T_placeholder))
        s2 == IF ~IsNone(marker) THEN DictSet(s1, K_marker, marker) ELSE s1
    IN  [_series |-> s2, _data |-> data]

get_name(self) == DictGet(self._series, K_name).s

get_data_as_str(self) == PyRepr(self._data)

set_series_type(self, series_type) ==
    [self EXCEPT !._series = DictSet(@, K_type, series_type)]

javascript_var_name(self) ==
    LET var_name == StrReplace(DictGet(self._series, K_name).s, <<" ">>, <<"_">>)
                      \o T_data
    IN  IF isdigit(var_name[1]) THEN <<"_">> \o var_name ELSE var_name

to_javascript_var(self) ==
    T_var \o javascript_var_name(self) \o T_assign
      \o get_data_as_str(self) \o <<";">>

get_js_var_definitions(list_of_series) ==
    [i \in 1..Len(list_of_series) |-> to_javascript_var(list_of_series[i])]

\* the text searched for: the placeholder as a JSON string of its own
QuotedPlaceholder(self) ==
    <<"\"">> \o StrReplace(get_name(self), <<" ">>, <<"_">>) \o T_placeholder
      \o <<"\"">>

RECURSIVE PlaceholderReplaceFrom(_, _, _)
PlaceholderReplaceFrom(json_string, list_of_series, i) ==
    IF i > Len(list_of_series) THEN json_string
    ELSE PlaceholderReplaceFrom(
           StrReplace(json_string, QuotedPlaceholder(list_of_series[i]),
                      javascript_var_name(list_of_series[i])),
           list_of_series, i + 1)

data_placeholder_replace(json_string, list_of_series) ==
    PlaceholderReplaceFrom(json_string, list_of_series, 1)

-----------------------------------------------------------------------------
(* Outcomes of a call.                                                     *)

Returned(v) == [kind |-> "return", val |-> v]
Raised(msg) == [kind |-> "raise", val |-> msg]

NoSeriesError == "The series has not been defined. Cannot create a valid chart."

-----------------------------------------------------------------------------
(* class Chart                                                             *)

DefaultWidth == 800
DefaultHeight == 400

\* set_chart as it would be with a return after the pop
set_chart_returns_after_pop(self, chart_type, zoom_type) ==
    IF IsNone(chart_type)
    THEN [self EXCEPT !._chart = DictPop(@, K_chart)]
    ELSE [self EXCEPT !._chart =
            DictSet(@, K_chart,
                    PyDict(<<[k |-> K_type, v |-> chart_type],
                             [k |-> K_zoomType, v |-> zoom_type]>>))]

set_chart(self, chart_type, zoom_type) ==
    LET popped == IF IsNone(chart_type)
                  THEN [self EXCEPT !._chart = DictPop(@, K_chart)]
                  ELSE self
    IN  [popped EXCEPT !._chart =
            DictSet(@, K_chart,
                    PyDict(<<[k |-> K_type, v |-> chart_type],
                             [k |-> K_zoomType, v |-> zoom_type]>>))]

set_credits(self, text, href) ==
    [self EXCEPT !._chart =
        DictSet(@, K_credits,
                PyDict(<<[k |-> K_text, v |-> text], [k |-> K_href, v |-> href]>>))]

set_title(self, title) ==
    [self EXCEPT !._chart =
        DictSet(@, K_title, PyDict(<<[k |-> K_text, v |-> title]>>))]

\* set_subtitle without its None branch, written like set_title
set_subtitle_without_none_branch(self, subtitle) ==
    [self EXCEPT !._chart =
        DictSet(@, K_subtitle, PyDict(<<[k |-> K_text, v |-> subtitle]>>))]

set_subtitle(self, subtitle) ==
    IF IsNone(subtitle)
    THEN [self EXCEPT !._chart = DictPop(@, K_subtitle)]
    ELSE [self EXCEPT !._chart =
            DictSet(@, K_subtitle, PyDict(<<[k |-> K_text, v |-> subtitle]>>))]

\* the two axis setters build the section key by key
AxisSection(axis_type, text) ==
    LET a0 == PyDict(<<>>)
        a1 == DictSet(a0, K_type, axis_type)
        a2 == DictSet(a1, K_title, PyDict(<<>>))
    IN  DictSet(a2, K_title, DictSet(DictGet(a2, K_title), K_text, text))

set_xaxis(self, axis_type, text) ==
    [self EXCEPT !._chart = DictSet(@, K_xAxis, AxisSection(axis_type, text))]

set_yaxis(self, axis_type, text) ==
    [self EXCEPT !._chart = DictSet(@, K_yAxis, AxisSection(axis_type, text))]

set_tooltip(self, tooltip_dict) ==
    IF IsNone(tooltip_dict)
    THEN [self EXCEPT !._chart = DictPop(@, K_tooltip)]
    ELSE [self EXCEPT !._chart = DictSet(@, K_tooltip, tooltip_dict)]

set_plot_options(self, plot_options_dict) ==
    IF IsNone(plot_options_dict)
    THEN [self EXCEPT !._chart = DictPop(@, K_plotOptions)]
    ELSE [self EXCEPT !._chart = DictSet(@, K_plotOptions, plot_options_dict)]

set_width(self, width) == [self EXCEPT !._width = width]

set_height(self, height) == [self EXCEPT !._height = height]

\* the default arguments of the setters, applied in the order of the source
set_defaults(self) ==
    LET c1 == set_credits(self, PyStr(T_jrtools), PyStr(T_href))
        c2 == set_chart(c1, PyStr(T_line), PyStr(T_x))
        c3 == set_title(c2, PyStr(T_ChartTitle))
        c4 == set_subtitle(c3, PyNone)
        c5 == set_xaxis(c4, PyStr(T_linear), PyStr(T_XAxisText))
        c6 == set_yaxis(c5, PyStr(T_linear), PyStr(T_YAxisText))
        c7 == set_tooltip(c6, PyNone)
    IN  set_plot_options(c7, PyNone)

\* Chart()
Chart__init__ ==
    LET c0 == [_chart |-> PyDict(<<>>), _series_instances_list |-> <<>>,
               _width |-> 0, _height |-> 0]
    IN  [set_defaults(c0) EXCEPT !._width = DefaultWidth,
                                 !._height = DefaultHeight]

\* add_series without its last line: a first series is appended to a list
\* that the chart description never gets
add_series_without_store(self, sid) ==
    LET appended == [DictGet(self._chart, K_series) EXCEPT
                        !.items = Append(@, SeriesRef(sid))]
    IN  [self EXCEPT !._series_instances_list = Append(@, sid),
                     !._chart = IF DictHas(@, K_series)
                                THEN DictSet(@, K_series, appended)
                                ELSE @]

\* add_series as it would be if it put the series in front of the others
add_series_in_front(self, sid) ==
    LET series_list == IF DictHas(self._chart, K_series)
                       THEN DictGet(self._chart, K_series)
                       ELSE PyList(<<>>)
        inserted == [series_list EXCEPT !.items = <<SeriesRef(sid)>> \o @]
    IN  [self EXCEPT !._series_instances_list = <<sid>> \o @,
                     !._chart = DictSet(@, K_series, inserted)]

\* add_series as it would be if it started a new list at every call
add_series_replacing(self, sid) ==
    [self EXCEPT !._series_instances_list = Append(@, sid),
                 !._chart = DictSet(@, K_series, PyList(<<SeriesRef(sid)>>))]

\* series is the identity of a Series object: the chart description gets a
\* reference to that object's _series dict, the instance list the object
add_series(self, sid) ==
    LET series_list == IF DictHas(self._chart, K_series)
                       THEN DictGet(self._chart, K_series)
                       ELSE PyList(<<>>)
        appended == [series_list EXCEPT !.items = Append(@, SeriesRef(sid))]
    IN  [self EXCEPT !._series_instances_list = Append(@, sid),
                     !._chart = DictSet(@, K_series, appended)]

\* the Series objects of the instance list
Instances(self, heap) ==
    [i \in 1..Len(self._series_instances_list) |->
        heap[self._series_instances_list[i]]]

to_json_string(self, heap) ==
    IF DictHas(self._chart, K_series)
    THEN Returned(data_placeholder_replace(Dumps(self._chart, 0, heap),
                                           Instances(self, heap)))
    ELSE Raised(NoSeriesError)

get_series_js_var_statements(self, heap) ==
    IF DictHas(self._chart, K_series)
    THEN Returned(get_js_var_definitions(Instances(self, heap)))
    ELSE Raised(NoSeriesError)

-----------------------------------------------------------------------------
(* class Page                                                              *)

\* Page(title_text)
Page__init__(title_text) == [_title_text |-> title_text, _charts |-> <<>>]

add_chart(self, new_chart) == [self EXCEPT !._charts = Append(@, new_chart)]

get_header_text(self) ==
    H_doctype \o H_html \o H_head \o H_jquery \o H_highcharts \o H_head_end
      \o H_body
      \o (IF ~IsNone(self._title_text)
          THEN H_h1 \o self._title_text.s \o H_h1_end
          ELSE <<>>)

\* the first assignment to footer_text is overwritten by the second
get_footer_text == H_html_end

indent(num_spaces, text) == Spaces(num_spaces) \o text

RECURSIVE IndentedLines(_, _, _)
IndentedLines(lines, i, num_spaces) ==
    IF i > Len(lines) THEN <<>>
    ELSE indent(num_spaces, lines[i]) \o <<"\n">>
           \o IndentedLines(lines, i + 1, num_spaces)

\* the text to_html adds for the chart at (0-based) index, or the error
ChartHtml(index, chart, heap) ==
    LET container ==
            H_div_id \o IntToText(index) \o H_div_style
              \o IntToText(chart._width) \o H_div_height
              \o IntToText(chart._height) \o H_div_end
              \o indent(2, H_script) \o indent(4, H_function)
        var_lines == get_series_js_var_statements(chart, heap)
        json == to_json_string(chart, heap)
    IN  IF var_lines.kind = "raise" THEN var_lines
        ELSE IF json.kind = "raise" THEN json
        ELSE Returned(
               container
                 \o IndentedLines(var_lines.val, 1, 6)
                 \o indent(6, H_container \o IntToText(index) \o H_highcharts_call)
                 \o IndentedLines(SplitLines(json.val), 1, 8)
                 \o indent(4, H_call_end) \o indent(4, H_function_end)
                 \o indent(2, H_script_end))

\* to_html as it would be if a chart that cannot be rendered were skipped
RECURSIVE HtmlFrom_skipping(_, _, _, _, _)
HtmlFrom_skipping(self, i, html_text, allcharts, heap) ==
    IF i > Len(self._charts) THEN Returned(html_text \o get_footer_text)
    ELSE LET part == ChartHtml(i - 1, allcharts[self._charts[i]], heap)
         IN  HtmlFrom_skipping(self, i + 1,
                               IF part.kind = "raise" THEN html_text
                               ELSE html_text \o part.val,
                               allcharts, heap)

RECURSIVE HtmlFrom(_, _, _, _, _)
HtmlFrom(self, i, html_text, allcharts, heap) ==
    IF i > Len(self._charts) THEN Returned(html_text \o get_footer_text)
    ELSE LET part == ChartHtml(i - 1, allcharts[self._charts[i]], heap)
         IN  IF part.kind = "raise" THEN part
             ELSE HtmlFrom(self, i + 1, html_text \o part.val, allcharts, heap)

to_html(self, allcharts, heap) ==
    HtmlFrom(self, 1, get_header_text(self), allcharts, heap)

-----------------------------------------------------------------------------
(* flux_densities: the coefficient table and its lookup.                   *)

\* a source name of _COEFF_TABLE
N_Cygnus_A ==
    <<"C", "y", "g", "n", "u", "s", " ", "A">>

\* a float literal of at most four decimals: e4 is its value in units of 10^-4
Float4(e4) == [t |-> "float", e4 |-> e4]

\* _COEFF_TABLE: name, a0 .. a5, fit, fmin, fmax of each source
COEFF_TABLE == <<
    <<PyStr(<<"J", "0", "1", "3", "3", "-", "3", "6", "2", "9">>),
      Float4(10440), Float4(-6620), Float4(-2250),
      Float4(0), Float4(0), Float4(0),
      Float4(2670000), Float4(2000), PyInt(4)>>,
    <<PyStr(N_3C48),
      Float4(13253), Float4(-7553), Float4(-1914),
      Float4(498), Float4(0), Float4(0),
      Float4(31000), Float4(500), PyInt(50)>>,
    <<PyStr(<<"F", "o", "r", "n", "a", "x", " ", "A">>),
      Float4(22180), Float4(-6610), Float4(0),
      Float4(0), Float4(0), Float4(0),
      Float4(170000), Float4(2000), Float4(5000)>>,
    <<PyStr(<<"3", "C", "1", "2", "3">>),
      Float4(18017), Float4(-7884), Float4(-1035),
      Float4(-248), Float4(90), Float4(0),
      Float4(19000), Float4(500), PyInt(50)>>,
    <<PyStr(<<"J", "0", "4", "4", "4", "-", "2", "8", "0", "9">>),
      Float4(9710), Float4(-8940), Float4(-1180),
      Float4(0), Float4(0), Float4(0),
      Float4(33000), Float4(2000), Float4(20000)>>,
    <<PyStr(<<"3", "C", "1", "3", "8">>),
      Float4(10088), Float4(-4981), Float4(-1550),
      Float4(-100), Float4(220), Float4(0),
      Float4(15000), Float4(2000), PyInt(50)>>,
    <<PyStr(<<"P", "i", "c", "t", "o", "r", " ", "A">>),
      Float4(19380), Float4(-7470), Float4(-740),
      Float4(0), Float4(0), Float4(0),
      Float4(81000), Float4(2000), Float4(40000)>>,
    <<PyStr(<<"T", "a", "u", "r", "u", "s", " ", "A">>),
      Float4(29516), Float4(-2170), Float4(-470),
      Float4(-670), Float4(0), Float4(0),
      Float4(19000), Float4(500), Float4(40000)>>,
    <<PyStr(<<"3", "C", "1", "4", "7">>),
      Float4(14516), Float4(-6961), Float4(-2010),
      Float4(640), Float4(-460), Float4(290),
      Float4(22000), Float4(500), PyInt(50)>>,
    <<PyStr(<<"3", "C", "1", "9", "6">>),
      Float4(12872), Float4(-8530), Float4(-1530),
      Float4(-200), Float4(201), Float4(0),
      Float4(16000), Float4(500), PyInt(50)>>,
    <<PyStr(<<"H", "y", "d", "r", "a", " ", "A">>),
      Float4(17795), Float4(-9176), Float4(-840),
      Float4(-139), Float4(300), Float4(0),
      Float4(35000), Float4(500), PyInt(12)>>,
    <<PyStr(<<"V", "i", "r", "g", "o", " ", "A">>),
      Float4(24466), Float4(-8116), Float4(-480),
      Float4(0), Float4(0), Float4(0),
      Float4(20000), Float4(500), PyInt(3)>>,
    <<PyStr(<<"3", "C", "2", "8", "6">>),
      Float4(12481), Float4(-4507), Float4(-1798),
      Float4(357), Float4(0), Float4(0),
      Float4(19000), Float4(500), PyInt(50)>>,
    <<PyStr(<<"3", "C", "2", "9", "5">>),
      Float4(14701), Float4(-7658), Float4(-2780),
      Float4(-347), Float4(399), Float4(0),
      Float4(16000), Float4(500), PyInt(50)>>,
    <<PyStr(<<"H", "e", "r", "c", "u", "l", "e", "s", " ", "A">>),
      Float4(18298), Float4(-10247), Float4(-951),
      Float4(0), Float4(0), Float4(0),
      Float4(23000), Float4(2000), PyInt(12)>>,
    <<PyStr(<<"3", "C", "3", "5", "3">>),
      Float4(18627), Float4(-6938), Float4(-1000),
      Float4(-320), Float4(0), Float4(0),
      Float4(22000), Float4(2000), PyInt(4)>>,
    <<PyStr(<<"3", "C", "3", "8", "0">>),
      Float4(12320), Float4(-7910), Float4(950),
      Float4(980), Float4(-1800), Float4(-1600),
      Float4(29000), Float4(500), PyInt(50)>>,
    <<PyStr(N_Cygnus_A),
      Float4(33498), Float4(-10022), Float4(-2250),
      Float4(230), Float4(430), Float4(0),
      Float4(19000), Float4(500), PyInt(12)>>,
    <<PyStr(<<"3", "C", "4", "4", "4">>),
      Float4(11064), Float4(-10050), Float4(-750),
      Float4(-770), Float4(0), Float4(0),
      Float4(57000), Float4(2000), PyInt(12)>>,
    <<PyStr(<<"C", "a", "s", "s", "i", "o", "p", "e", "i", "a", " ", "A">>),
      Float4(33584), Float4(-7518), Float4(-350),
      Float4(-710), Float4(0), Float4(0),
      Float4(21000), Float4(2000), PyInt(4)>>
    >>

\* str.lower() and str.upper(), on the letters of the ASCII alphabet
UpperLetters ==
    <<"A", "B", "C", "D", "E", "F", "G", "H", "I", "J", "K", "L", "M",
      "N", "O", "P", "Q", "R", "S", "T", "U", "V", "W", "X", "Y", "Z">>

LowerLetters ==
    <<"a", "b", "c", "d", "e", "f", "g", "h", "i", "j", "k", "l", "m",
      "n", "o", "p", "q", "r", "s", "t", "u", "v", "w", "x", "y", "z">>

LowerOf == [c \in {UpperLetters[k] : k \in 1..26} |->
               LowerLetters[CHOOSE k \in 1..26 : UpperLetters[k] = c]]

UpperOf == [c \in {LowerLetters[k] : k \in 1..26} |->
               UpperLetters[CHOOSE k \in 1..26 : LowerLetters[k] = c]]

lower(s) == [i \in 1..Len(s) |-> IF s[i] \in DOMAIN LowerOf THEN LowerOf[s[i]] ELSE s[i]]

upper(s) == [i \in 1..Len(s) |-> IF s[i] \in DOMAIN UpperOf THEN UpperOf[s[i]] ELSE s[i]]

\* get_sources as it would be if it listed the table from its end
get_sources_reversed ==
    PyList([i \in 1..Len(COEFF_TABLE) |-> COEFF_TABLE[Len(COEFF_TABLE) + 1 - i][1]])

\* get_sources(): the names, in the order of the table
get_sources == PyList([i \in 1..Len(COEFF_TABLE) |-> COEFF_TABLE[i][1]])

\* the namedtuple SourceCoeffs(name, a0, a1, a2, a3, a4, a5, fit, fmin, fmax)
SourceCoeffs(name, a0, a1, a2, a3, a4, a5, fit, fmin, fmax) ==
    [t |-> "SourceCoeffs", name |-> name,
     a0 |-> a0, a1 |-> a1, a2 |-> a2, a3 |-> a3, a4 |-> a4, a5 |-> a5,
     fit |-> fit, fmin |-> fmin, fmax |-> fmax]

\* get_source_coeffs as it would be if it compared the names as they are
get_source_coeffs_case_sensitive(source_name) ==
    LET found == {i \in 1..Len(COEFF_TABLE) : COEFF_TABLE[i][1].s = source_name}
    IN  IF found = {} THEN PyNone
        ELSE LET coeffs == COEFF_TABLE[SetMin(found)]
             IN  SourceCoeffs(coeffs[1], coeffs[2], coeffs[3], coeffs[4], coeffs[5],
                              coeffs[6], coeffs[7], coeffs[8], coeffs[9], coeffs[10])

\* get_source_coeffs as it would be if it filled fmin and fmax the other way
get_source_coeffs_swapped(source_name) ==
    LET found == {i \in 1..Len(COEFF_TABLE) :
                     lower(COEFF_TABLE[i][1].s) = lower(source_name)}
    IN  IF found = {} THEN PyNone
        ELSE LET coeffs == COEFF_TABLE[SetMin(found)]
             IN  SourceCoeffs(coeffs[1], coeffs[2], coeffs[3], coeffs[4], coeffs[5],
                              coeffs[6], coeffs[7], coeffs[8], coeffs[10], coeffs[9])

\* get_source_coeffs(source_name): the first row whose name matches, or None
get_source_coeffs(source_name) ==
    LET found == {i \in 1..Len(COEFF_TABLE) :
                     lower(COEFF_TABLE[i][1].s) = lower(source_name)}
    IN  IF found = {} THEN PyNone
        ELSE LET coeffs == COEFF_TABLE[SetMin(found)]
             IN  SourceCoeffs(coeffs[1], coeffs[2], coeffs[3], coeffs[4], coeffs[5],
                              coeffs[6], coeffs[7], coeffs[8], coeffs[9], coeffs[10])

-----------------------------------------------------------------------------
(* Floating point.  A float the program computes is modelled by an         *)
(* enclosure: two fixed-point numbers of eight decimals that the value     *)
(* lies between.  Every operation rounds its lower end down and its upper  *)
(* end up, so the exact result of the real-number expression is enclosed.  *)

\* the fixed-point unit: 1.0
Unit == 10000 * 10000

Abs(a) == IF a < 0 THEN -a ELSE a

\* floor and ceiling of a*b/Unit for a, b >= 0, without a*b itself
MulDownAbs(a, b) ==
    LET ah == a \div 10000
        al == a % 10000
        bh == b \div 10000
        bl == b % 10000
        m == ah * bl + al * bh
    IN  ah * bh + (m \div 10000) + (((m % 10000) * 10000 + al * bl) \div Unit)

MulUpAbs(a, b) ==
    LET al == a % 10000
        bl == b % 10000
        m == (a \div 10000) * bl + al * (b \div 10000)
    IN  MulDownAbs(a, b)
          + (IF ((m % 10000) * 10000 + al * bl) % Unit = 0 THEN 0 ELSE 1)

\* the same for numbers of either sign
MulDown(a, b) ==
    IF (a < 0) = (b < 0) THEN MulDownAbs(Abs(a), Abs(b))
    ELSE -MulUpAbs(Abs(a), Abs(b))

MulUp(a, b) ==
    IF (a < 0) = (b < 0) THEN MulUpAbs(Abs(a), Abs(b))
    ELSE -MulDownAbs(Abs(a), Abs(b))

CeilDiv(a, n) == (a + n - 1) \div n

SetMax(S) == CHOOSE m \in S : \A o \in S : m >= o

Enclosure(lo, hi) == [lo |-> lo, hi |-> hi]

Exactly(a) == Enclosure(a, a)

EncAdd(u, v) == Enclosure(u.lo + v.lo, u.hi + v.hi)

EncMul(u, v) ==
    Enclosure(SetMin({MulDown(a, b) : a \in {u.lo, u.hi}, b \in {v.lo, v.hi}}),
              SetMax({MulUp(a, b) : a \in {u.lo, u.hi}, b \in {v.lo, v.hi}}))

\* a lower and an upper bound of e^y for 0 <= y <= 3: the series of the
\* terms y^n/n!, cut where the terms have vanished
RECURSIVE ExpSumDown(_, _, _)
ExpSumDown(y, term, n) ==
    IF term = 0 THEN 0
    ELSE term + ExpSumDown(y, MulDownAbs(term, y) \div n, n + 1)

RECURSIVE ExpSumUp(_, _, _)
ExpSumUp(y, term, n) ==
    IF term <= 1 /\ n >= 6 THEN 2
    ELSE term + ExpSumUp(y, CeilDiv(MulUpAbs(term, y), n), n + 1)

ExpDown(y) == ExpSumDown(y, Unit, 1)

ExpUp(y) == ExpSumUp(y, Unit, 1)

\* the greatest a in lo..hi-1 with P(a), given P(lo) and ~P(hi), by bisection
RECURSIVE LastWith(_, _, _)
LastWith(P(_), lo, hi) ==
    IF hi - lo <= 1 THEN lo
    ELSE LET mid == (lo + hi) \div 2
         IN  IF P(mid) THEN LastWith(P, mid, hi) ELSE LastWith(P, lo, mid)

\* the natural logarithm of 10: e^lo <= 10 <= e^hi
Ln10 ==
    LET below(y) == ExpUp(y) <= 10 * Unit
        notabove(y) == ExpDown(y) < 10 * Unit
    IN  Enclosure(LastWith(below, 2 * Unit, 3 * Unit),
                  LastWith(notabove, 2 * Unit, 3 * Unit) + 1)

\* bounds of mantissa * 10^exponent, in units of 10^(-places)
RECURSIVE TenTo(_)
TenTo(n) == IF n = 0 THEN 1 ELSE 10 * TenTo(n - 1)

ScaleDown(mantissa, shift) ==
    IF shift >= 0 THEN mantissa * TenTo(shift)
    ELSE IF shift < -9 THEN 0
    ELSE mantissa \div TenTo(-shift)

ScaleUp(mantissa, shift) ==
    IF shift >= 0 THEN mantissa * TenTo(shift)
    ELSE IF shift < -9 THEN 1
    ELSE CeilDiv(mantissa, TenTo(-shift))

\* bounds of 10^p: 10^floor(p) * e^(frac(p) * ln 10); the result is in
\* fixed point with 8 + shift decimals
Pow10Down(p, shift) ==
    ScaleDown(ExpDown(MulDownAbs(p % Unit, Ln10.lo)), (p \div Unit) + shift)

Pow10Up(p, shift) ==
    ScaleUp(ExpUp(MulUpAbs(p % Unit, Ln10.hi)), (p \div Unit) + shift)

\* the frequencies get_jy is applied to, in fixed point: -1, 0, 0.1, 1, 2, 3, 10
FreqArgs == {-Unit, 0, Unit \div 10, Unit, 2 * Unit, 3 * Unit, 10 * Unit}

\* the value of a number of the table, in units of 10^-4 and in fixed point
InE4(v) == IF v.t = "int" THEN v.n * 10000 ELSE v.e4

Fixed(v) == InE4(v) * 10000

\* a float the program computed: between lo and hi, in units of 10^-4
FloatWithin(lo, hi) == [t |-> "float", lo |-> lo, hi |-> hi]

FloatNaN == [t |-> "float", nan |-> TRUE]

MathDomainError == "math domain error"

\* the logarithm to base 10 of a frequency 0.01 <= x <= 10: 10^lo <= x <= 10^hi
Log10 ==
    [x \in {f \in FreqArgs : f > 0} |->
        LET below(a) == Pow10Up(a, 0) <= x
            notabove(a) == Pow10Down(a, 0) < x
        IN  Enclosure(LastWith(below, -2 * Unit, Unit + 1),
                      LastWith(notabove, -2 * Unit, Unit + 1) + 1)]

\* math.log(x, 10)
log(x) == IF x <= 0 THEN Raised(MathDomainError) ELSE Returned(Log10[x])

\* jy_pre of get_jy: the six terms, each with its own power of the logarithm
jy_pre(coeffs, x) ==
    LET x2 == EncMul(x, x)
        x3 == EncMul(x2, x)
        x4 == EncMul(x3, x)
        x5 == EncMul(x4, x)
        term(a, power) == EncMul(Exactly(Fixed(a)), power)
    IN  EncAdd(Exactly(Fixed(coeffs.a0)),
        EncAdd(term(coeffs.a1, x),
        EncAdd(term(coeffs.a2, x2),
        EncAdd(term(coeffs.a3, x3),
        EncAdd(term(coeffs.a4, x4),
               term(coeffs.a5, x5))))))

\* pow(10.0, jy_pre)
pow10(p) == FloatWithin(Pow10Down(p.lo, -4), Pow10Up(p.hi, -4))

\* get_jy as it would be if it took the logarithm before it looked the source up
get_jy_log_first(source, freq_ghz) ==
    LET coeffs == get_source_coeffs(source)
        x == log(freq_ghz)
    IN  IF x.kind = "raise" THEN x
        ELSE IF IsNone(coeffs) THEN Returned(PyNone)
        ELSE Returned(pow10(jy_pre(coeffs, x.val)))

\* get_jy as it would be if the logarithm of a non-positive number were NaN
get_jy_quiet(source, freq_ghz) ==
    LET coeffs == get_source_coeffs(source)
        x == log(freq_ghz)
    IN  IF IsNone(coeffs) THEN Returned(PyNone)
        ELSE IF x.kind = "raise" THEN Returned(FloatNaN)
        ELSE Returned(pow10(jy_pre(coeffs, x.val)))

\* get_jy as it would be if it left the last term out
get_jy_five_terms(source, freq_ghz) ==
    LET coeffs == get_source_coeffs(source)
        x == log(freq_ghz)
    IN  IF IsNone(coeffs) THEN Returned(PyNone)
        ELSE IF x.kind = "raise" THEN x
        ELSE Returned(pow10(jy_pre([coeffs EXCEPT !.a5 = Float4(0)], x.val)))

\* get_jy as it would be if it answered only within fmin .. fmax
get_jy_within_bounds(source, freq_ghz) ==
    LET coeffs == get_source_coeffs(source)
        x == log(freq_ghz)
    IN  IF IsNone(coeffs) THEN Returned(PyNone)
        ELSE IF x.kind = "raise" THEN x
        ELSE IF \/ freq_ghz \div 10000 < InE4(coeffs.fmin)
                \/ freq_ghz \div 10000 > InE4(coeffs.fmax)
        THEN Returned(PyNone)
        ELSE Returned(pow10(jy_pre(coeffs, x.val)))

\* get_jy(source, freq_ghz)
get_jy(source, freq_ghz) ==
    LET coeffs == get_source_coeffs(source)
        x == log(freq_ghz)
    IN  IF IsNone(coeffs) THEN Returned(PyNone)
        ELSE IF x.kind = "raise" THEN x
        ELSE Returned(pow10(jy_pre(coeffs, x.val)))

-----------------------------------------------------------------------------
(* Bounds and inputs.                                                      *)

\* at most this many Series objects are built
MaxSeries == 2
\* at most this many charts are added to the page
MaxCharts == 2
\* series names of at most this length are enumerated
MaxNameLen == 3

\* the two Chart objects of the model; the chart specifications use the first
ChartIds == {1, 2}

Point(x, y) == PyList(<<x, y>>)

Data_3C48 ==
    PyList(<<Point(PyFloat(1), PyFloat(10)), Point(PyFloat(2), PyFloat(5))>>)
Data_ints == PyList(<<Point(PyInt(1), PyInt(2))>>)

Marker_circle ==
    PyDict(<<[k |-> K_symbol, v |-> PyStr(T_circle)],
             [k |-> K_radius, v |-> PyInt(0)]>>)

SeriesArgs(name, data, marker) == [name |-> name, data |-> data, marker |-> marker]

Arg_3C48 == SeriesArgs(N_3C48, Data_3C48, PyNone)
Arg_a_b == SeriesArgs(N_a_b, Data_ints, Marker_circle)
Arg_a_b_us == SeriesArgs(N_a_b_us, Data_3C48, PyNone)
Arg_quote == SeriesArgs(N_quote, Data_ints, PyNone)
Arg_like_placeholder == SeriesArgs(N_like_placeholder, Data_ints, PyNone)

\* the Series arguments of each specification
SectionSeriesArgs == {Arg_3C48}
SubstSeriesArgs == {Arg_3C48, Arg_a_b, Arg_a_b_us, Arg_quote, Arg_like_placeholder}
PageSeriesArgs == {Arg_3C48, Arg_quote}

\* a str argument or None
TitleArgs == {PyStr(T_ChartTitle), PyNone}
SubstTitleArgs == {PyStr(TitleEndsLikePlaceholder), PyStr(TitleHoldsPlaceholder)}
SubtitleArgs == {PyNone, PyStr(<<>>)}
ChartTypeArgs == {PyStr(T_line), PyNone}
AxisTypeArgs == {PyStr(T_linear), PyNone}
DictArgs == {PyNone, PyDict(<<>>)}
PageTitleArgs == {PyStr(T_ChartTest), PyNone}

NameAlphabet == {"a", "3", " ", "-"}

RECURSIVE NamesOfLen(_)
NamesOfLen(n) ==
    IF n = 0 THEN {<<>>}
    ELSE {Append(s, c) : s \in NamesOfLen(n - 1), c \in NameAlphabet}

BoundedNames == UNION {NamesOfLen(n) : n \in 0..MaxNameLen}

-----------------------------------------------------------------------------
(* flux_densities: create_chart and the command line.                      *)

\* _frange(start, stop, step), in fixed point
RECURSIVE frange(_, _, _)
frange(start, stop, step) ==
    IF start > stop THEN <<>>
    ELSE <<start>> \o frange(start + step, stop, step)

NoneFormatError == "must be real number, not NoneType"

\* [float("%.4f" % freq), float("%.7f" % get_jy(source, float(freq)))], or the
\* error of get_jy or of formatting None.  Rounding to seven decimals moves
\* a value by less than a unit of the enclosure.
freq_flux(source, freq) ==
    LET formatted(jy) ==
            IF jy.kind = "raise" THEN jy
            ELSE IF IsNone(jy.val) THEN Raised(NoneFormatError)
            ELSE Returned(PyList(<<
                     FloatWithin((freq + 5000) \div 10000, (freq + 5000) \div 10000),
                     FloatWithin(jy.val.lo - 1, jy.val.hi + 1)>>))
    IN  formatted(get_jy(source, freq))

\* create_chart(sources, minx, maxx, y_axis_linear): the chart and the Series
\* objects it holds, or the first error of the data loop
create_chart(sources, minx, maxx, y_axis_linear) ==
    LET freqs == frange(minx, maxx, Unit \div 100)
        data == [i \in 1..Len(sources) |->
                   [k \in 1..Len(freqs) |-> freq_flux(sources[i], freqs[k])]]
        charted(points) ==
          LET
              failed == {<<i, k>> \in (1..Len(sources)) \X (1..Len(freqs)) :
                            points[i][k].kind = "raise"}
              first == CHOOSE f \in failed :
                          \A o \in failed :
                              f[1] < o[1] \/ (f[1] = o[1] /\ f[2] <= o[2])
              source_data(i) == PyList([k \in 1..Len(freqs) |-> points[i][k].val])
              c1 == IF Len(sources) = 1
                    THEN set_title(Chart__init__, PyStr(sources[1]))
                    ELSE set_title(Chart__init__, PyStr(
                           <<"M", "u", "l", "t", "i", "p", "l", "e", " ", "S",
                           "o", "u", "r", "c", "e", "s">>))
              c2 == set_subtitle(c1, PyStr(
                  <<"B", "a", "s", "e", "d", " ", "o", "n", " ", "P", "e", "r",
                  "l", "e", "y", " ", "a", "n", "d", " ", "B", "u", "t", "l", "e",
                  "r", ",", " ", "2", "0", "1", "6", ":", " ", "h", "t", "t", "p",
                  "s", ":", "/", "/", "a", "r", "x", "i", "v", ".", "o", "r", "g",
                  "/", "p", "d", "f", "/", "1", "6", "0", "9", ".", "0", "5", "9",
                  "4", "0", ".", "p", "d", "f">>))
              c3 == set_xaxis(c2, PyStr(<<"l", "o", "g", "a", "r", "i", "t", "h", "m",
                                    "i", "c">>),
                              PyStr(<<"F", "r", "e", "q", "u", "e", "n", "c", "y",
                                    " ", "i", "n", " ", "G", "H", "z">>))
              c4 == IF y_axis_linear
                    THEN set_yaxis(c3, PyStr(T_linear), PyStr(<<"J", "y">>))
                    ELSE set_yaxis(c3, PyStr(<<"l", "o", "g", "a", "r", "i", "t", "h", "m",
                                    "i", "c">>),
                                   PyStr(<<"J", "y">>))
              entry(k, v) == [k |-> k, v |-> PyStr(v)]
              crosshairs == entry(<<"c", "r", "o", "s", "s", "h", "a", "i", "r",
                                  "s">>,
                                  <<"t", "r", "u", "e">>)
              shared == entry(<<"s", "h", "a", "r", "e", "d">>, <<"t", "r", "u", "e">>)
              headerFormat == <<"h", "e", "a", "d", "e", "r", "F", "o", "r", "m",
                              "a", "t">>
              pointFormat == <<"p", "o", "i", "n", "t", "F", "o", "r", "m", "a",
                              "t">>
              c5 == IF Len(sources) = 1
                    THEN set_tooltip(c4, PyDict(<<crosshairs, shared,
                           entry(headerFormat,
                  <<"{", "p", "o", "i", "n", "t", ".", "x", ":", ".", "3", "f",
                  "}", " ", "G", "H", "z", "<", "b", "r", ">">>),
                           entry(pointFormat,
                  <<"{", "p", "o", "i", "n", "t", ".", "y", ":", ".", "1", "f",
                  "}", " ", "J", "y", "<", "b", "r", ">">>)>>))
                    ELSE set_tooltip(c4, PyDict(<<crosshairs, shared,
                           entry(headerFormat,
                  <<"<", "b", ">", "[", "M", "u", "l", "t", "i", "p", "l", "e",
                  " ", "S", "o", "u", "r", "c", "e", "s", "]", " ", "{", "p", "o",
                  "i", "n", "t", ".", "k", "e", "y", ":", ".", "2", "f", "}", "<",
                  "/", "b", ">", " ", "G", "H", "z", ":", " ", "<", "b", "r",
                  ">">>),
                           entry(pointFormat,
                  <<"<", "b", ">", "{", "s", "e", "r", "i", "e", "s", ".", "n",
                  "a", "m", "e", "}", ":", "<", "/", "b", ">", " ", "{", "p", "o",
                  "i", "n", "t", ".", "y", ":", ".", "1", "f", "}", " ", "J", "y",
                  "<", "b", "r", ">">>)>>))
              c6 == set_height(set_width(c5, 800), 500)
              marker == PyDict(<<[k |-> K_marker, v |-> Marker_circle]>>)
              heap == [i \in 1..Len(sources) |->
                          Series__init__(sources[i], source_data(i), marker)]
              RECURSIVE added(_)
              added(n) == IF n = 0 THEN c6 ELSE add_series(added(n - 1), n)
          IN  IF failed # {} THEN points[first[1]][first[2]]
              ELSE Returned([chart |-> added(Len(sources)), series |-> heap])
    IN  charted(data)

\* " ".join(words)
RECURSIVE join(_)
join(words) ==
    IF words = <<>> THEN <<>>
    ELSE IF Len(words) = 1 THEN words[1]
    ELSE words[1] \o <<" ">> \o join(Tail(words))

\* s.split(',')
RECURSIVE split(_)
split(s) ==
    LET commas == {i \in 1..Len(s) : s[i] = ","}
    IN  IF commas = {} THEN <<s>>
        ELSE <<SubSeq(s, 1, SetMin(commas) - 1)>>
               \o split(SubSeq(s, SetMin(commas) + 1, Len(s)))

\* print(fmt % args)
printed(fmt, args) == [e |-> "print", fmt |-> fmt, args |-> args]

\* for source in get_sources(): print(source)
sources_printed ==
    [i \in 1..Len(get_sources.items) |-> printed(<<"%", "s">>, <<get_sources.items[i].s>>)]

\* sys.exit(code)
Exited(code) == [kind |-> "exit", val |-> code]

PageArgumentsError ==
    "Page.__init__() takes 2 positional arguments but 3 were given"

ErrorFormat ==
    <<"E", "r", "r", "o", "r", ":", " ", "%", "s", " ", "i", "s", " ", "n",
    "o", "t", " ", "a", " ", "v", "a", "l", "i", "d", " ", "s", "o", "u",
    "r", "c", "e", " ", "n", "a", "m", "e", ".", " ", "V", "a", "l", "i",
    "d", " ", "n", "a", "m", "e", "s", " ", "a", "r", "e", ":">>

FluxFormat ==
    <<"F", "l", "u", "x", " ", "o", "f", " ", "%", "s", " ", "@", " ", "%",
    "0", ".", "2", "f", " ", "M", "H", "z", " ", "i", "s", " ", "%", "0",
    ".", "2", "f", " ", "J", "y">>

\* the sources of the command line: the words joined, split at the commas,
\* and all the sources if the first one is "all"
command_line_sources(args) ==
    LET sources == split(join(args.source))
    IN  IF upper(sources[1]) = <<"A", "L", "L">>
        THEN [i \in 1..Len(get_sources.items) |-> get_sources.items[i].s]
        ELSE sources

\* the loop of the --flux option from the i-th source on: what it prints,
\* and the error that ends it, if any
RECURSIVE flux_loop(_, _, _)
flux_loop(sources, i, freq_mhz) ==
    IF i > Len(sources) THEN [out |-> Exited(0), printed |-> <<>>]
    ELSE LET looped(flux_jy, rest) ==
                 IF flux_jy.kind = "raise" THEN [out |-> flux_jy, printed |-> <<>>]
                 ELSE [out |-> rest.out,
                       printed |-> <<printed(FluxFormat,
                                             <<sources[i], freq_mhz, flux_jy.val>>)>>
                                     \o rest.printed]
         IN  looped(get_jy(sources[i], freq_mhz * (Unit \div 1000)),
                    flux_loop(sources, i + 1, freq_mhz))

\* main(), for the parsed arguments args; args.given is FALSE when the
\* command line has no argument at all
main(args) ==
    LET sources_lowercase ==
            {lower(get_sources.items[i].s) : i \in 1..Len(get_sources.items)}
        paged(chart) ==
            IF chart.kind = "raise"
            THEN [out |-> chart, printed |-> <<>>]
            ELSE [out |-> Raised(PageArgumentsError), printed |-> <<>>]
        checked(sources) ==
            LET invalid == {i \in 1..Len(sources) :
                               lower(sources[i]) \notin sources_lowercase}
            IN  IF invalid # {}
                THEN [out |-> Exited(0),
                      printed |-> <<printed(ErrorFormat, <<sources[SetMin(invalid)]>>)>>
                                    \o sources_printed]
                ELSE IF args.list
                THEN [out |-> Exited(0), printed |-> sources_printed]
                ELSE IF ~IsNone(args.flux)
                THEN flux_loop(sources, 1, args.flux.n)
                ELSE paged(create_chart(sources, args.minf, args.maxf, args.linear))
    IN  IF ~args.given
        THEN [out |-> Exited(1), printed |-> <<printed(<<"%", "s">>, <<"help">>)>>]
        ELSE checked(command_line_sources(args))

-----------------------------------------------------------------------------
(* Page.to_file and Page.display_in_browser.  A file system is the set of  *)
(* its files, each a name and a text; a call gives its outcome, the file   *)
(* system it leaves and what it did to the world outside, in order.        *)

\* open(filename, 'w'): the file is there and empty
opened(fs, filename) ==
    {f \in fs : f.name # filename} \cup {[name |-> filename, text |-> <<>>]}

\* out_file.write(text); out_file.close()
written(fs, filename, text) ==
    {f \in fs : f.name # filename} \cup {[name |-> filename, text |-> text]}

\* os.unlink(filename)
unlinked(fs, filename) == {f \in fs : f.name # filename}

\* to_file(filename): the file is opened before the HTML is made
to_file(self, filename, allcharts, heap, fs) ==
    LET open == [e |-> "open", file |-> filename]
        out_file(html_text) ==
            IF html_text.kind = "raise"
            THEN [out |-> html_text, files |-> opened(fs, filename), events |-> <<open>>]
            ELSE [out |-> Returned(PyNone),
                  files |-> written(fs, filename, html_text.val),
                  events |-> <<open, [e |-> "write", file |-> filename]>>]
    IN  out_file(to_html(self, allcharts, heap))

\* the name tempfile.NamedTemporaryFile(suffix='.html') gives its file: one
\* that no file has yet
TemporaryName(fs) ==
    LET name(n) == <<"/", "t", "m", "p", "/", "t", "m", "p">>
                     \o IntToText(n) \o <<".", "h", "t", "m", "l">>
    IN  name(SetMin({n \in 1..(Cardinality(fs) + 1) :
                        \A f \in fs : f.name # name(n)}))

\* os.getcwd()
Cwd ==
    <<"/", "h", "o", "m", "e", "/", "u", "s", "e", "r">>

BrowserError == "could not locate runnable browser"

SleepError == "sleep length must be non-negative"

\* display_in_browser(html_filename, browser_type, verbose, delay), where
\* runnable tells if webbrowser.get(browser_type) finds a browser
display_in_browser(self, html_filename, verbose, delay, allcharts, heap, fs, runnable) ==
    LET temporary == IsNone(html_filename)
        shown_after(filename, saved) ==
          LET
              made == IF temporary THEN <<[e |-> "mkstemp", file |-> filename]>> ELSE <<>>
              url == IF temporary
                     THEN <<"f", "i", "l", "e", ":", "/", "/">> \o filename
                     ELSE <<"f", "i", "l", "e", ":", "/", "/", "/">>
                            \o Cwd \o <<"/">> \o filename
              shown == <<[e |-> "browser", url |-> url]>>
                         \o (IF verbose
                             THEN <<printed(
              <<"H", "T", "M", "L", " ", "f", "i", "l", "e", " ", "U", "R", "L",
              ":", " ", "%", "s">>,
                                            <<url>>)>>
                             ELSE <<>>)
              sleeping == IF verbose
                          THEN <<printed(
              <<"S", "l", "e", "e", "p", "i", "n", "g", " ", "5", " ", "s", "e",
              "c", "o", "n", "d", "s", " ", "t", "o", " ", "a", "l", "l", "o",
              "w", " ", "b", "r", "o", "w", "s", "e", "r", " ", "t", "o", " ",
              "r", "e", "n", "d", "e", "r", " ", "t", "h", "e", " ", "c", "h",
              "a", "r", "t", ".", ".", ".">>,
                                         <<>>)>>
                          ELSE <<>>
              deleted == <<[e |-> "unlink", file |-> filename]>>
                           \o (IF verbose
                               THEN <<printed(
              <<"%", "s", " ", "d", "e", "l", "e", "t", "e", "d", ".">>,
                                              <<filename>>)>>
                               ELSE <<>>)
              ended(out, fs_after, done) ==
                  [out |-> out, files |-> fs_after, events |-> made \o saved.events \o done]
          IN  IF saved.out.kind = "raise" THEN ended(saved.out, saved.files, <<>>)
              ELSE IF ~runnable THEN ended(Raised(BrowserError), saved.files, <<>>)
              ELSE IF ~temporary THEN ended(Returned(PyNone), saved.files, shown)
              ELSE IF delay < 0
              THEN ended(Raised(SleepError), saved.files, shown \o sleeping)
              ELSE ended(Returned(PyNone), unlinked(saved.files, filename),
                         shown \o sleeping \o <<[e |-> "sleep", seconds |-> delay]>>
                           \o deleted)
        named(filename) ==
            shown_after(filename,
                        to_file(self, filename, allcharts, heap,
                                IF temporary THEN opened(fs, filename) ELSE fs))
    IN  named(IF temporary THEN TemporaryName(fs) ELSE html_filename.s)

-----------------------------------------------------------------------------
(* The state machine.  ret is the outcome of the most recent call: op is   *)
(* the call ("Chart" for the constructors, "mutate" for a call that only   *)
(* changes an object and returns None), on the object it was made on.      *)

Outcome(op, on, out) == [op |-> op, on |-> on, out |-> out]

Mutated == Outcome("mutate", 0, Returned(PyNone))

Init ==
    /\ series = <<>>
    /\ charts = [c \in ChartIds |-> Chart__init__]
    /\ page = Page__init__(PyStr(T_ChartTest))
    /\ ret = Outcome("Chart", 0, Returned(PyNone))
    /\ files = {}
    /\ events = <<>>

\* a setter call on chart c
Setter(c, after) ==
    /\ charts' = [charts EXCEPT ![c] = after]
    /\ ret' = Mutated
    /\ UNCHANGED <<series, page, files, events>>

SetChart(c) ==
    \E chart_type \in ChartTypeArgs :
        Setter(c, set_chart(charts[c], chart_type, PyStr(T_x)))

SetCredits(c) ==
    Setter(c, set_credits(charts[c], PyStr(T_jrtools), PyStr(T_href)))

SetTitle(c, titles) ==
    \E title \in titles : Setter(c, set_title(charts[c], title))

SetSubtitle(c) ==
    \E subtitle \in SubtitleArgs : Setter(c, set_subtitle(charts[c], subtitle))

SetXaxis(c) ==
    \E axis_type \in AxisTypeArgs :
        Setter(c, set_xaxis(charts[c], axis_type, PyStr(T_XAxisText)))

SetYaxis(c) ==
    \E axis_type \in AxisTypeArgs :
        Setter(c, set_yaxis(charts[c], axis_type, PyStr(T_YAxisText)))

SetTooltip(c) ==
    \E tooltip_dict \in DictArgs : Setter(c, set_tooltip(charts[c], tooltip_dict))

SetPlotOptions(c) ==
    \E plot_options_dict \in DictArgs :
        Setter(c, set_plot_options(charts[c], plot_options_dict))

\* add_series as it would be if the chart description got a copy of the
\* Series' dict
AddSeries_storing_copy(c, args) ==
    /\ Len(series) < MaxSeries
    /\ \E a \in args :
        \E s \in {Series__init__(a.name, a.data, a.marker)} :
            /\ series' = Append(series, s)
            /\ charts' =
                 [charts EXCEPT ![c] =
                    [add_series(@, Len(series) + 1) EXCEPT !._chart =
                        DictSet(@, K_series,
                                [DictGet(@, K_series) EXCEPT
                                    !.items[Len(series) + 1] = s._series])]]
    /\ ret' = Mutated
    /\ UNCHANGED <<page, files, events>>

\* chart.add_series(Series(name, data, marker)): the Series object is built
\* and handed to the chart
AddSeries(c, args) ==
    /\ Len(series) < MaxSeries
    /\ \E a \in args :
        /\ series' = Append(series, Series__init__(a.name, a.data, a.marker))
        /\ charts' = [charts EXCEPT ![c] = add_series(@, Len(series) + 1)]
    /\ ret' = Mutated
    /\ UNCHANGED <<page, files, events>>

ToJsonString(c) ==
    /\ ret' = Outcome("to_json_string", c, to_json_string(charts[c], series))
    /\ UNCHANGED <<series, charts, page, files, events>>

GetSeriesJsVarStatements(c) ==
    /\ ret' = Outcome("get_series_js_var_statements", c,
                      get_series_js_var_statements(charts[c], series))
    /\ UNCHANGED <<series, charts, page, files, events>>

AddChart ==
    /\ Len(page._charts) < MaxCharts
    /\ \E c \in ChartIds : page' = add_chart(page, c)
    /\ ret' = Mutated
    /\ UNCHANGED <<series, charts, files, events>>

ToHtml ==
    /\ ret' = Outcome("to_html", 0, to_html(page, charts, series))
    /\ UNCHANGED <<series, charts, page, files, events>>

\* Series(name, data): a Series that is not added to a chart
NewSeries ==
    /\ series = <<>>
    /\ \E name \in BoundedNames :
        series' = <<Series__init__(name, Data_ints, PyNone)>>
    /\ ret' = Outcome("Series", 1, Returned(PyNone))
    /\ UNCHANGED <<charts, page, files, events>>

JavascriptVarName ==
    /\ \E sid \in 1..Len(series) :
        ret' = Outcome("javascript_var_name", sid,
                       Returned(javascript_var_name(series[sid])))
    /\ UNCHANGED <<series, charts, page, files, events>>

\* one chart, every setter, a well-behaved series
Next ==
    \/ SetChart(1)
    \/ SetCredits(1)
    \/ SetTitle(1, TitleArgs)
    \/ SetSubtitle(1)
    \/ SetXaxis(1)
    \/ SetYaxis(1)
    \/ SetTooltip(1)
    \/ SetPlotOptions(1)
    \/ AddSeries(1, SectionSeriesArgs)
    \/ ToJsonString(1)
    \/ GetSeriesJsVarStatements(1)

Spec == Init /\ [][Next]_vars

\* one chart, series and titles whose text meets the placeholder substitution
SubstNext ==
    \/ SetTitle(1, SubstTitleArgs)
    \/ AddSeries(1, SubstSeriesArgs)
    \/ ToJsonString(1)
    \/ GetSeriesJsVarStatements(1)

SubstSpec == Init /\ [][SubstNext]_vars

\* a page of charts
PageInit ==
    /\ series = <<>>
    /\ charts = [c \in ChartIds |-> Chart__init__]
    /\ \E title_text \in PageTitleArgs : page = Page__init__(title_text)
    /\ ret = Outcome("Chart", 0, Returned(PyNone))
    /\ files = {}
    /\ events = <<>>

PageNext ==
    \/ \E c \in ChartIds : AddSeries(c, PageSeriesArgs)
    \/ AddChart
    \/ ToHtml

PageSpec == PageInit /\ [][PageNext]_vars

\* the variable identifier of a series name
NameNext ==
    \/ NewSeries
    \/ JavascriptVarName

NameSpec == Init /\ [][NameNext]_vars

\* a chart whose series are changed after they were added
RefSeriesArgs == {Arg_3C48, Arg_a_b, Arg_quote}

SeriesTypeArgs == {PyStr(T_line), PyStr(<<"s", "p", "l", "i", "n", "e">>)}

\* series.set_series_type(series_type) on a Series object built before
SetSeriesType ==
    /\ \E sid \in 1..Len(series), series_type \in SeriesTypeArgs :
        series' = [series EXCEPT ![sid] = set_series_type(@, series_type)]
    /\ ret' = Mutated
    /\ UNCHANGED <<charts, page, files, events>>

RefNext ==
    \/ AddSeries(1, RefSeriesArgs)
    \/ SetSeriesType
    \/ ToJsonString(1)

RefSpec == Init /\ [][RefNext]_vars

\* one chart, series whose names differ after the space is replaced, among
\* them a name that starts with a digit and the same name after an underscore
DistinctSeriesArgs ==
    {Arg_3C48, SeriesArgs(<<"_">> \o N_3C48, Data_ints, PyNone), Arg_a_b,
     SeriesArgs(<<"a">>, Data_3C48, PyNone), Arg_quote, Arg_like_placeholder}

DistinctNext ==
    \/ AddSeries(1, DistinctSeriesArgs)
    \/ ToJsonString(1)
    \/ GetSeriesJsVarStatements(1)

DistinctSpec == Init /\ [][DistinctNext]_vars

-----------------------------------------------------------------------------
(* flux_densities: the functions of the module, applied to bounded inputs. *)

N_Vega ==
    <<"V", "e", "g", "a">>

\* s without its spaces, and with each space doubled
Unspaced(s) == SelectSeq(s, LAMBDA c : c # " ")

Spaced(s) == StrReplace(s, <<" ">>, <<" ", " ">>)

\* the spellings a name is looked up in
Spellings(n) ==
    {n, lower(n), upper(n), SubSeq(n, 1, Len(n) - 1), n \o <<" ">>,
     <<" ">> \o n, Unspaced(n), Spaced(n)}

SourceNameArgs ==
    UNION {Spellings(COEFF_TABLE[i][1].s) : i \in 1..Len(COEFF_TABLE)}
      \cup {N_Vega, <<>>}

\* the names get_jy is applied to: every source, and names that are none
JyNameArgs ==
    {COEFF_TABLE[i][1].s : i \in 1..Len(COEFF_TABLE)}
      \cup {lower(N_Cygnus_A), lower(N_3C48), N_Vega, SubSeq(N_3C48, 1, 3), <<>>}

GetSources ==
    /\ ret' = Outcome("get_sources", 0, Returned(get_sources))
    /\ UNCHANGED <<series, charts, page, files, events>>

GetSourceCoeffs ==
    /\ \E source_name \in SourceNameArgs :
        ret' = Outcome("get_source_coeffs", source_name,
                       Returned(get_source_coeffs(source_name)))
    /\ UNCHANGED <<series, charts, page, files, events>>

GetJy ==
    /\ \E source \in JyNameArgs, freq_ghz \in FreqArgs :
        ret' = Outcome("get_jy", [source |-> source, freq_ghz |-> freq_ghz],
                       get_jy(source, freq_ghz))
    /\ UNCHANGED <<series, charts, page, files, events>>

FluxNext ==
    \/ GetSources
    \/ GetSourceCoeffs
    \/ GetJy

FluxSpec == Init /\ [][FluxNext]_vars

-----------------------------------------------------------------------------
(* flux_densities: the command line.                                       *)

\* the positional arguments of the command line
SourceWordArgs ==
    {<<>>,
     <<N_3C48>>,
     <<lower(SubSeq(N_Cygnus_A, 1, 6)), <<"a">>>>,
     <<N_Cygnus_A \o <<",">> \o lower(N_3C48)>>,
     <<<<"a", "l", "l">>>>,
     <<N_Vega>>,
     <<N_3C48 \o <<",">> \o N_Vega>>}

\* --flux in MHz; --minf and --maxf in GHz, in fixed point
FluxArgs == {PyNone, PyFloat(3000), PyFloat(0)}

RangeArgs == {<<Unit, Unit>>, <<0, 0>>}

MainArgs ==
    {[given |-> FALSE, source |-> <<>>, list |-> FALSE, flux |-> PyNone,
      chart |-> FALSE, linear |-> FALSE, minf |-> Unit, maxf |-> 20 * Unit]}
    \cup
    {[given |-> TRUE, source |-> source, list |-> list, flux |-> flux,
      chart |-> chart, linear |-> chart, minf |-> range[1], maxf |-> range[2]] :
        source \in SourceWordArgs, list \in BOOLEAN, flux \in FluxArgs,
        chart \in BOOLEAN, range \in RangeArgs}

Main ==
    /\ \E args \in MainArgs :
        \E ended \in {main(args)} :
            /\ ret' = Outcome("main", args, ended.out)
            /\ events' = ended.printed
    /\ UNCHANGED <<series, charts, page, files>>

CliNext == Main

CliSpec == Init /\ [][CliNext]_vars

\* create_chart: lists of one source, of two, of all and of none, a list
\* with a name that is in no row, and ranges of one frequency (1, 3 or 10
\* GHz), of none and of the frequency 0
SourceListArgs ==
    {<<get_sources.items[i].s>> : i \in 1..Len(get_sources.items)}
      \cup {<<get_sources.items[i].s, get_sources.items[i + 1].s>> :
               i \in 1..(Len(get_sources.items) - 1)}
      \cup {[i \in 1..Len(get_sources.items) |-> get_sources.items[i].s],
            <<N_3C48, N_3C48>>, <<>>, <<N_Vega>>}

ChartArgs ==
    {[sources |-> sources, minx |-> Unit, maxx |-> Unit,
      y_axis_linear |-> y_axis_linear] :
        sources \in SourceListArgs, y_axis_linear \in BOOLEAN}
      \cup
    {[sources |-> sources, minx |-> range[1], maxx |-> range[2],
      y_axis_linear |-> FALSE] :
        sources \in {<<N_3C48>>, <<N_Cygnus_A, N_3C48>>},
        range \in {<<0, 0>>, <<2 * Unit, Unit>>, <<10 * Unit, 10 * Unit>>}}
      \cup
    {[sources |-> <<get_sources.items[i].s>>, minx |-> 3 * Unit, maxx |-> 3 * Unit,
      y_axis_linear |-> FALSE] : i \in 1..Len(get_sources.items)}

\* create_chart(sources, minx, maxx, y_axis_linear)
CreateChart ==
    /\ \E args \in ChartArgs :
        \E made \in {create_chart(args.sources, args.minx, args.maxx,
                                  args.y_axis_linear)} :
            ret' = Outcome("create_chart", args, made)
    /\ UNCHANGED <<series, charts, page, files, events>>

ChartNext == CreateChart

ChartSpec == Init /\ [][ChartNext]_vars

-----------------------------------------------------------------------------
(* Pages shown in a browser.                                               *)

\* at most this many files are left behind
MaxFiles == 2

HtmlFilenameArgs ==
    {PyNone, PyStr(<<"c", "h", "a", "r", "t", ".", "h", "t", "m", "l">>)}

DelayArgs == {5, -1}

\* page.display_in_browser(html_filename, None, verbose, delay), in a world
\* where a browser is found or is not
DisplayInBrowser ==
    /\ Cardinality(files) < MaxFiles
    /\ \E html_filename \in HtmlFilenameArgs, verbose \in BOOLEAN,
          delay \in DelayArgs, runnable \in BOOLEAN :
        \E ended \in {display_in_browser(page, html_filename, verbose, delay,
                                            charts, series, files, runnable)} :
            /\ ret' = Outcome("display_in_browser",
                              [html_filename |-> html_filename, delay |-> delay,
                               before |-> files],
                              ended.out)
            /\ files' = ended.files
            /\ events' = ended.events
    /\ UNCHANGED <<series, charts, page>>

DisplayNext ==
    \/ AddSeries(1, SectionSeriesArgs)
    \/ AddChart
    \/ DisplayInBrowser

DisplaySpec == Init /\ [][DisplayNext]_vars

\* page.to_file(filename)
ToFile ==
    /\ \E html_filename \in HtmlFilenameArgs \ {PyNone} :
        \E saved \in {to_file(page, html_filename.s, charts, series, files)} :
            /\ ret' = Outcome("to_file",
                              [filename |-> html_filename.s, before |-> files],
                              saved.out)
            /\ files' = saved.files
            /\ events' = saved.events
    /\ UNCHANGED <<series, charts, page>>

\* a page saved to a file
FileNext ==
    \/ \E c \in ChartIds : AddSeries(c, SectionSeriesArgs)
    \/ AddChart
    \/ ToFile

FileSpec == PageInit /\ [][FileNext]_vars

-----------------------------------------------------------------------------
(* Reading a returned text.                                                *)

StartsWith(s, prefix) ==
    Len(s) >= Len(prefix) /\ SubSeq(s, 1, Len(prefix)) = prefix

Contains(s, part) == Occurrences(s, part) # {}

\* the key of a line  <indent>"key": ...  of a serialized document
KeyOfLine(line, num_spaces) ==
    LET from == num_spaces + 2
        close == SetMin({i \in from..Len(line) : line[i] = "\""})
    IN  SubSeq(line, from, close - 1)

\* the lines of a document that open a key at the given indentation
KeyLines(doc, num_spaces) ==
    LET opens(line) == StartsWith(line, Spaces(num_spaces) \o <<"\"">>)
    IN  SelectSeq(SplitLines(doc), opens)

\* the keys of the outermost mapping of a serialized document
TopLevelKeys(doc) ==
    LET lines == KeyLines(doc, 2)
    IN  {KeyOfLine(lines[i], 2) : i \in 1..Len(lines)}

\* the chart the most recent call was made on
Called == charts[ret.on]

DocumentReturned == ret.op = "to_json_string" /\ ret.out.kind = "return"

NoSeriesRaised == ret.out.kind = "raise" /\ ret.out.val = NoSeriesError

-----------------------------------------------------------------------------
(* Claims, checked under Spec: one chart and every setter.                 *)

\* C1: to_json_string on a chart to which no series was added raises the
\* 'series has not been defined' error whatever setters were called before,
\* and returns a document once a series was added.
C1_SerializeNeedsSeries ==
    ret.op = "to_json_string" =>
        /\ Called._series_instances_list = <<>> => NoSeriesRaised
        /\ Called._series_instances_list # <<>> => ret.out.kind = "return"

\* C1 witness: the error is raised on a chart whose tooltip and plotOptions
\* were set and whose chart type was overridden
C1_Witness ==
    /\ ret.op = "to_json_string"
    /\ NoSeriesRaised
    /\ DictHas(Called._chart, K_tooltip)
    /\ DictHas(Called._chart, K_plotOptions)
    /\ IsNone(DictGet(DictGet(Called._chart, K_chart), K_type))

AxisDefault(text) ==
    PyDict(<<[k |-> K_type, v |-> PyStr(T_linear)],
             [k |-> K_title, v |-> PyDict(<<[k |-> K_text, v |-> PyStr(text)]>>)]>>)

\* what C5 says of every section but subtitle and tooltip
DefaultSections(d) ==
    /\ DictGet(d, K_chart) =
         PyDict(<<[k |-> K_type, v |-> PyStr(T_line)],
                  [k |-> K_zoomType, v |-> PyStr(T_x)]>>)
    /\ DictGet(DictGet(d, K_credits), K_text) = PyStr(T_jrtools)
    /\ DictGet(d, K_title) = PyDict(<<[k |-> K_text, v |-> PyStr(T_ChartTitle)]>>)
    /\ DictGet(d, K_xAxis) = AxisDefault(T_XAxisText)
    /\ DictGet(d, K_yAxis) = AxisDefault(T_YAxisText)
    /\ ~DictHas(d, K_plotOptions)

\* C5 (as amended): right after construction a chart's description holds a
\* chart section of type line with zoomType x, the default credits and title
\* text, linear x and y axes with their placeholder label text, and no
\* subtitle, no tooltip and no plotOptions section.
C5_Defaults ==
    ret.op = "Chart" =>
        \A c \in ChartIds :
            /\ DefaultSections(charts[c]._chart)
            /\ ~DictHas(charts[c]._chart, K_subtitle)
            /\ ~DictHas(charts[c]._chart, K_tooltip)

\* C5 witness: the state right after construction
C5_Witness ==
    /\ ret.op = "Chart"
    /\ \A c \in ChartIds :
        {DictKeys(charts[c]._chart)[i] : i \in 1..Len(charts[c]._chart.items)}
            = {K_credits, K_chart, K_title, K_xAxis, K_yAxis}

\* C5 as claimed: right after construction the description also holds a
\* default subtitle text and a default tooltip section.
C5_AsClaimed ==
    ret.op = "Chart" =>
        \A c \in ChartIds :
            /\ DefaultSections(charts[c]._chart)
            /\ DictHas(charts[c]._chart, K_subtitle)
            /\ DictHas(charts[c]._chart, K_tooltip)

AllowedKeys ==
    {K_chart, K_credits, K_title, K_subtitle, K_xAxis, K_yAxis, K_tooltip,
     K_plotOptions, K_series}

RequiredKeys == {K_chart, K_credits, K_title, K_xAxis, K_yAxis, K_series}

\* C6: every document to_json_string returns has its top-level keys among
\* chart, credits, title, subtitle, xAxis, yAxis, tooltip, plotOptions and
\* series, and has chart, credits, title, xAxis, yAxis and series.
C6_DocumentKeys ==
    DocumentReturned =>
        /\ TopLevelKeys(ret.out.val) \subseteq AllowedKeys
        /\ RequiredKeys \subseteq TopLevelKeys(ret.out.val)

\* C6 witness: a document returned after set_chart(None), set_title(None) and
\* set_xaxis(None), with no optional section
C6_Witness ==
    /\ DocumentReturned
    /\ IsNone(DictGet(DictGet(Called._chart, K_chart), K_type))
    /\ IsNone(DictGet(DictGet(Called._chart, K_title), K_text))
    /\ IsNone(DictGet(DictGet(Called._chart, K_xAxis), K_type))
    /\ TopLevelKeys(ret.out.val) = RequiredKeys

\* the state a setter call with these arguments leads to
SetterStep(c, after) == charts'[c] = after /\ ret' = Mutated

\* the section is in neither the description nor the next document
SectionAbsent(chart, heap, key) ==
    /\ ~DictHas(chart._chart, key)
    /\ LET out == to_json_string(chart, heap)
       IN  out.kind = "return" => key \notin TopLevelKeys(out.val)

SectionPresent(chart, heap, key) ==
    /\ DictHas(chart._chart, key)
    /\ LET out == to_json_string(chart, heap)
       IN  out.kind = "return" => key \in TopLevelKeys(out.val)

\* C4: a call of set_chart, set_title, set_subtitle, set_xaxis, set_yaxis,
\* set_tooltip or set_plot_options with None removes the setter's section
\* from the description and from the next document, while an empty value
\* keeps the section.
C4_NoneRemovesSection ==
    [][\A c \in {1} :
        /\ SetterStep(c, set_chart(charts[c], PyNone, PyStr(T_x)))
             => SectionAbsent(charts'[c], series', K_chart)
        /\ SetterStep(c, set_title(charts[c], PyNone))
             => SectionAbsent(charts'[c], series', K_title)
        /\ SetterStep(c, set_subtitle(charts[c], PyNone))
             => SectionAbsent(charts'[c], series', K_subtitle)
        /\ SetterStep(c, set_xaxis(charts[c], PyNone, PyStr(T_XAxisText)))
             => SectionAbsent(charts'[c], series', K_xAxis)
        /\ SetterStep(c, set_yaxis(charts[c], PyNone, PyStr(T_YAxisText)))
             => SectionAbsent(charts'[c], series', K_yAxis)
        /\ SetterStep(c, set_tooltip(charts[c], PyNone))
             => SectionAbsent(charts'[c], series', K_tooltip)
        /\ SetterStep(c, set_plot_options(charts[c], PyNone))
             => SectionAbsent(charts'[c], series', K_plotOptions)
        /\ SetterStep(c, set_subtitle(charts[c], PyStr(<<>>)))
             => SectionPresent(charts'[c], series', K_subtitle)
        /\ SetterStep(c, set_tooltip(charts[c], PyDict(<<>>)))
             => SectionPresent(charts'[c], series', K_tooltip)
        /\ SetterStep(c, set_plot_options(charts[c], PyDict(<<>>)))
             => SectionPresent(charts'[c], series', K_plotOptions)]_vars

-----------------------------------------------------------------------------
(* Claims, checked under SubstSpec: one chart, series and titles whose     *)
(* text meets the placeholder substitution.                                *)

\* the lines  "key": value  of the entries of the document's series list
FieldLines(doc, key) ==
    LET opens(line) ==
            StartsWith(line, Spaces(6) \o EncodeString(key) \o <<":", " ">>)
    IN  SelectSeq(SplitLines(doc), opens)

\* the value of such a line, without the comma that may follow it
FieldValue(line, key) ==
    LET value == SubSeq(line, 6 + Len(EncodeString(key)) + 3, Len(line))
    IN  IF value # <<>> /\ value[Len(value)] = ","
        THEN SubSeq(value, 1, Len(value) - 1)
        ELSE value

\* the placeholder token Series.__init__ put into the data field
Token(self) == DictGet(self._series, K_data).s

\* C2: in every document to_json_string returns, the data field of every
\* series holds that series' bare variable identifier, and the document has
\* no occurrence of the series' quoted placeholder string.
C2_PlaceholdersResolved ==
    DocumentReturned =>
        LET doc == ret.out.val
            lines == FieldLines(doc, K_data)
            inst == Instances(Called, series)
        IN  \A i \in 1..Len(inst) :
                /\ i <= Len(lines)
                /\ FieldValue(lines[i], K_data) = javascript_var_name(inst[i])
                /\ Occurrences(doc, QuotedPlaceholder(inst[i])) = {}

\* the str values of the title, the subtitle and the axis labels, and the
\* series names
ConfigTexts(chart, heap) ==
    LET d == chart._chart
        texts(vs) == {v.s : v \in {w \in vs : w.t = "str"}}
    IN  texts({DictGet(DictGet(d, K_title), K_text),
               DictGet(DictGet(DictGet(d, K_xAxis), K_title), K_text),
               DictGet(DictGet(DictGet(d, K_yAxis), K_title), K_text)})
          \cup (IF DictHas(d, K_subtitle)
                THEN texts({DictGet(DictGet(d, K_subtitle), K_text)})
                ELSE {})
          \cup {get_name(Instances(chart, heap)[i]) :
                    i \in 1..Len(chart._series_instances_list)}

\* C3: a str value of the configuration that holds the characters of a
\* series' placeholder token inside a longer text is in the returned
\* document as json.dumps wrote it.
C3_LongerTextUnchanged ==
    DocumentReturned =>
        LET inst == Instances(Called, series)
        IN  \A text \in ConfigTexts(Called, series) :
                \A i \in 1..Len(inst) :
                    (Contains(text, Token(inst[i])) /\ Len(text) > Len(Token(inst[i])))
                        => Contains(ret.out.val, EncodeString(text))

\* C7: after add_series for s1..sn the document's series list has n entries,
\* the i-th with the name of si, and get_series_js_var_statements returns n
\* statements, the i-th binding the identifier of si.
C7_SeriesInOrder ==
    /\ DocumentReturned =>
        LET lines == FieldLines(ret.out.val, K_name)
        IN  /\ Len(lines) = Len(series)
            /\ \A i \in 1..Len(series) :
                  FieldValue(lines[i], K_name) = EncodeString(get_name(series[i]))
    /\ (ret.op = "get_series_js_var_statements" /\ ret.out.kind = "return") =>
        /\ Len(ret.out.val) = Len(series)
        /\ \A i \in 1..Len(series) :
              StartsWith(ret.out.val[i],
                         T_var \o javascript_var_name(series[i]) \o T_assign)

-----------------------------------------------------------------------------
(* Claims, checked under NameSpec: the variable identifier of a name.      *)

\* the characters that may start a JavaScript identifier
IdentifierStart ==
    {"a", "b", "c", "d", "e", "f", "g", "h", "i", "j", "k", "l", "m", "n", "o", "p", "q", "r", "s", "t", "u", "v", "w", "x", "y", "z"} \cup
    {"A", "B", "C", "D", "E", "F", "G", "H", "I", "J", "K", "L", "M", "N", "O", "P", "Q", "R", "S", "T", "U", "V", "W", "X", "Y", "Z"} \cup
    {"_", "$"}

\* C8: javascript_var_name returns the name with each space replaced by an
\* underscore, followed by '_data', with one underscore in front exactly when
\* that text starts with a digit; the identifier starts with a character
\* that may start an identifier.
C8_VariableIdentifier ==
    ret.op = "javascript_var_name" =>
        LET name == get_name(series[ret.on])
            normalized == [i \in 1..Len(name) |->
                              IF name[i] = " " THEN "_" ELSE name[i]]
            text == normalized \o T_data
            expected == IF isdigit(text[1]) THEN <<"_">> \o text ELSE text
        IN  /\ ret.out.val = expected
            /\ ret.out.val[1] \in IdentifierStart

-----------------------------------------------------------------------------
(* Claims, checked under PageSpec: a page of charts.                       *)

HtmlReturned == ret.op = "to_html" /\ ret.out.kind = "return"

\* the chart added to the page as its i-th
PageChart(i) == charts[page._charts[i]]

\* the lines that open the container of the chart at (0-based) index
ContainerLines(lines, index) ==
    {j \in 1..Len(lines) :
        StartsWith(lines[j], H_div_id \o IntToText(index) \o <<"\"">>)}

\* the lines that bind a chart to the container at (0-based) index
BindingLines(lines, index) ==
    {j \in 1..Len(lines) :
        lines[j] = Spaces(6) \o H_container \o IntToText(index)
                     \o SubSeq(H_highcharts_call, 1, Len(H_highcharts_call) - 1)}

\* a data field of a series entry that holds the bare text value
IsDataLine(line, value) ==
    LET field == Spaces(14) \o EncodeString(K_data) \o <<":", " ">> \o value
    IN  line = field \/ line = field \o <<",">>

\* C9: to_html emits the charts in the order they were added: for the k-th
\* chart one container element with an id of its own, then the var statement
\* of each of its series, then the binding statement for that container,
\* whose data fields hold the identifiers of those series unquoted.
C9_PageOrder ==
    HtmlReturned =>
        LET lines == SplitLines(ret.out.val)
            n == Len(page._charts)
            one(S) == CHOOSE j \in S : TRUE
            container(i) == one(ContainerLines(lines, i - 1))
            binding(i) == one(BindingLines(lines, i - 1))
            last(i) == IF i < n THEN container(i + 1) ELSE Len(lines)
        IN  \A i \in 1..n :
                /\ Cardinality(ContainerLines(lines, i - 1)) = 1
                /\ Cardinality(BindingLines(lines, i - 1)) = 1
                /\ container(i) < binding(i)
                /\ i < n => binding(i) < container(i + 1)
                /\ LET inst == Instances(PageChart(i), series)
                   IN  \A s \in 1..Len(inst) :
                        /\ \E j \in (container(i) + 1)..(binding(i) - 1) :
                              lines[j] = Spaces(6) \o T_var
                                           \o javascript_var_name(inst[s]) \o T_assign
                                           \o get_data_as_str(inst[s]) \o <<";">>
                        /\ \E j \in (binding(i) + 1)..last(i) :
                              IsDataLine(lines[j], javascript_var_name(inst[s]))

\* C10: if a chart of the page has no series, to_html raises the 'series has
\* not been defined' error and returns no document, wherever that chart is
\* among the page's charts.
C10_NoEmptyChart ==
    ret.op = "to_html" =>
        ((\E i \in 1..Len(page._charts) :
              PageChart(i)._series_instances_list = <<>>)
            => NoSeriesRaised)

\* C10 witness: the error is raised for a chart without series that comes
\* after a chart with series
C10_Witness ==
    /\ ret.op = "to_html"
    /\ NoSeriesRaised
    /\ Len(page._charts) = 2
    /\ PageChart(1)._series_instances_list # <<>>
    /\ PageChart(2)._series_instances_list = <<>>

-----------------------------------------------------------------------------
(* Claims on the source catalog.                                           *)

\* the twenty names of the catalog, as the table declares them
CatalogNames ==
    <<<<"J", "0", "1", "3", "3", "-", "3", "6", "2", "9">>,
      N_3C48,
      <<"F", "o", "r", "n", "a", "x", " ", "A">>,
      <<"3", "C", "1", "2", "3">>,
      <<"J", "0", "4", "4", "4", "-", "2", "8", "0", "9">>,
      <<"3", "C", "1", "3", "8">>,
      <<"P", "i", "c", "t", "o", "r", " ", "A">>,
      <<"T", "a", "u", "r", "u", "s", " ", "A">>,
      <<"3", "C", "1", "4", "7">>,
      <<"3", "C", "1", "9", "6">>,
      <<"H", "y", "d", "r", "a", " ", "A">>,
      <<"V", "i", "r", "g", "o", " ", "A">>,
      <<"3", "C", "2", "8", "6">>,
      <<"3", "C", "2", "9", "5">>,
      <<"H", "e", "r", "c", "u", "l", "e", "s", " ", "A">>,
      <<"3", "C", "3", "5", "3">>,
      <<"3", "C", "3", "8", "0">>,
      N_Cygnus_A,
      <<"3", "C", "4", "4", "4">>,
      <<"C", "a", "s", "s", "i", "o", "p", "e", "i", "a", " ", "A">>>>

\* a letter and the same letter in the other case
CasePairs ==
    {<<UpperLetters[k], LowerLetters[k]>> : k \in 1..26}
      \cup {<<LowerLetters[k], UpperLetters[k]>> : k \in 1..26}

\* two names of the same length that differ at most in the case of letters
SameIgnoringCase(s, n) ==
    /\ Len(s) = Len(n)
    /\ \A i \in 1..Len(s) : s[i] = n[i] \/ <<s[i], n[i]>> \in CasePairs

LookedUp == ret.op = "get_source_coeffs"

\* the most recent call returned the record of the source registered as n
RecordReturned(n) ==
    /\ ret.out.kind = "return"
    /\ ret.out.val.t = "SourceCoeffs"
    /\ ret.out.val.name = PyStr(n)

\* C11: get_source_coeffs(s) returns the record of the table entry n exactly
\* when s and n are the same up to the case of their letters, so the
\* all-lowercase and the all-uppercase spelling of a catalog name both get
\* that name's record; for every other s (a proper prefix, a name with a
\* space more or less, an unknown name) it returns None.
C11_CaseInsensitiveExactMatch ==
    LookedUp =>
        /\ \A i \in 1..Len(CatalogNames) :
              /\ RecordReturned(CatalogNames[i])
                    <=> SameIgnoringCase(ret.on, CatalogNames[i])
              /\ ret.on \in {lower(CatalogNames[i]), upper(CatalogNames[i])}
                    => RecordReturned(CatalogNames[i])
        /\ (\A i \in 1..Len(CatalogNames) : ~SameIgnoringCase(ret.on, CatalogNames[i]))
              => ret.out = Returned(PyNone)

\* the all-uppercase spelling of a name with lowercase letters was looked up
\* and found
C11_Witness ==
    /\ LookedUp
    /\ ret.on = upper(N_Cygnus_A)
    /\ ret.on # N_Cygnus_A
    /\ RecordReturned(N_Cygnus_A)

\* C12: get_sources returns exactly 20 names, one per table row, in the
\* order of the table, whatever was called before.
C12_SourcesInOrder ==
    ret.op = "get_sources" =>
        /\ ret.out.kind = "return"
        /\ ret.out.val.t = "list"
        /\ Len(ret.out.val.items) = 20
        /\ \A i \in 1..20 : ret.out.val.items[i] = PyStr(CatalogNames[i])

\* get_sources returned its list
C12_Witness ==
    /\ ret.op = "get_sources"
    /\ ret.out.kind = "return"
    /\ Len(ret.out.val.items) = Len(COEFF_TABLE)

\* C13: the record get_source_coeffs returns for a name of the table has the
\* ten values of that row in the fields name, a0, a1, a2, a3, a4, a5, fit,
\* fmin, fmax, in this order, the name spelled as registered whatever the
\* case of the query.
C13_RecordFields ==
    LookedUp =>
        \A i \in 1..Len(COEFF_TABLE) :
            SameIgnoringCase(ret.on, COEFF_TABLE[i][1].s) =>
                LET r == ret.out.val
                IN  /\ ret.out.kind = "return"
                    /\ r.t = "SourceCoeffs"
                    /\ r.name = COEFF_TABLE[i][1]
                    /\ r.a0 = COEFF_TABLE[i][2]
                    /\ r.a1 = COEFF_TABLE[i][3]
                    /\ r.a2 = COEFF_TABLE[i][4]
                    /\ r.a3 = COEFF_TABLE[i][5]
                    /\ r.a4 = COEFF_TABLE[i][6]
                    /\ r.a5 = COEFF_TABLE[i][7]
                    /\ r.fit = COEFF_TABLE[i][8]
                    /\ r.fmin = COEFF_TABLE[i][9]
                    /\ r.fmax = COEFF_TABLE[i][10]

\* the lowercase spelling of Cygnus A got the record of the test: fmin 0.05
\* and fmax 12
C13_Witness ==
    /\ LookedUp
    /\ ret.on = lower(N_Cygnus_A)
    /\ ret.out.val.t = "SourceCoeffs"
    /\ ret.out.val.name = PyStr(N_Cygnus_A)
    /\ ret.out.val.fmin = Float4(500)
    /\ ret.out.val.fmax = PyInt(12)

-----------------------------------------------------------------------------
(* Claims on the flux model.                                               *)

Evaluated == ret.op = "get_jy"

\* the rows of the table a name matches
RowsNamed(s) ==
    {i \in 1..Len(COEFF_TABLE) : SameIgnoringCase(s, COEFF_TABLE[i][1].s)}

FloatReturned ==
    /\ ret.out.kind = "return"
    /\ ret.out.val.t = "float"
    /\ DOMAIN ret.out.val = {"t", "lo", "hi"}

\* C14: for a source name that matches no catalog entry, get_jy returns None
\* at every frequency, zero and negative ones included, and raises nothing.
C14_UnknownSourceIsNone ==
    (Evaluated /\ RowsNamed(ret.on.source) = {}) => ret.out = Returned(PyNone)

\* an unknown source was evaluated at a frequency that has no logarithm
C14_Witness ==
    /\ Evaluated
    /\ ret.on.source = N_Vega
    /\ ret.on.freq_ghz <= 0
    /\ ret.out = Returned(PyNone)

\* C15: for a known source and a frequency <= 0, get_jy raises the math
\* domain error; it returns neither a number nor NaN.
C15_NonPositiveFrequencyRaises ==
    (Evaluated /\ RowsNamed(ret.on.source) # {} /\ ret.on.freq_ghz <= 0) =>
        ret.out = Raised(MathDomainError)

\* a known source was evaluated at a negative frequency
C15_Witness ==
    /\ Evaluated
    /\ ret.on.source = N_3C48
    /\ ret.on.freq_ghz < 0
    /\ ret.out.kind = "raise"

\* a0 + x*(a1 + x*(a2 + x*(a3 + x*(a4 + x*a5)))) for the a's of table row i
Polynomial(i, x) ==
    LET a(k) == Exactly(InE4(COEFF_TABLE[i][k + 2]) * 10000)
    IN  EncAdd(a(0), EncMul(x,
        EncAdd(a(1), EncMul(x,
        EncAdd(a(2), EncMul(x,
        EncAdd(a(3), EncMul(x,
        EncAdd(a(4), EncMul(x, a(5)))))))))))

\* two enclosures that have a number in common
Overlap(u, v) == u.lo <= v.hi /\ v.lo <= u.hi

\* an enclosure, in units of 10^-4, no wider than a 10000th of its value
\* and two units
Tight(u) == (u.hi - u.lo) <= 2 + u.hi \div 10000

\* C16: for a known source and a positive frequency f, get_jy returns 10^p
\* with p = a0 + a1*x + a2*x^2 + a3*x^3 + a4*x^4 + a5*x^5, x = log10(f) and
\* a0 .. a5 the coefficients of the row looked up, all six terms taken;
\* get_jy('Cygnus A', 3.0) is 668.55 to two decimals.
C16_SixTermPolynomial ==
    (Evaluated /\ RowsNamed(ret.on.source) # {} /\ ret.on.freq_ghz > 0) =>
        /\ FloatReturned
        /\ Tight(ret.out.val)
        /\ \A i \in RowsNamed(ret.on.source) :
             LET p == Polynomial(i, Log10[ret.on.freq_ghz])
             IN  Overlap(ret.out.val,
                         Enclosure(Pow10Down(p.lo, -4), Pow10Up(p.hi, -4)))
        /\ (ret.on.source = N_Cygnus_A /\ ret.on.freq_ghz = 3 * Unit) =>
              (6685450 <= ret.out.val.lo /\ ret.out.val.hi < 6685550)

\* Cygnus A was evaluated at 3.0 GHz
C16_Witness ==
    /\ Evaluated
    /\ ret.on.source = N_Cygnus_A
    /\ ret.on.freq_ghz = 3 * Unit
    /\ FloatReturned

-----------------------------------------------------------------------------
(* Claims on the command line.                                             *)

MainCalled == ret.op = "main"

\* the command line has a source name that matches no catalog entry
UnknownSourceGiven(args) ==
    /\ args.given
    /\ \E i \in 1..Len(command_line_sources(args)) :
          RowsNamed(command_line_sources(args)[i]) = {}

\* main reported a name as not valid and printed the valid names after it
ErrorReported ==
    /\ events # <<>>
    /\ events[1].fmt = ErrorFormat
    /\ Tail(events) = [i \in 1..Len(CatalogNames) |->
                          printed(<<"%", "s">>, <<CatalogNames[i]>>)]

\* C17: when a source name of the command line matches no catalog entry,
\* main reports the error, prints the valid names and ends with an exit
\* status other than zero; it computes no flux, builds no chart and raises
\* nothing.
C17_UnknownSourceExitsNonZero ==
    (MainCalled /\ UnknownSourceGiven(ret.on)) =>
        /\ ErrorReported
        /\ \A i \in 1..Len(events) : events[i].fmt # FluxFormat
        /\ ret.out.kind = "exit"
        /\ ret.out.val # 0

-----------------------------------------------------------------------------
(* Claims on series that share a variable identifier.                      *)

\* the series of the called chart, and the pairs of them, in add order, whose
\* names give the same variable identifier
Added == Instances(Called, series)

Colliding ==
    {p \in (1..Len(Added)) \X (1..Len(Added)) :
        /\ p[1] < p[2]
        /\ javascript_var_name(Added[p[1]]) = javascript_var_name(Added[p[2]])}

\* C18: when two series whose names give the same identifier were added to
\* a chart, to_json_string either raises or returns a document in which the
\* data fields of both are the shared identifier, and
\* get_series_js_var_statements either raises or returns the var statements
\* in add order, each with its own series' data, so that the data of the
\* series added last is what stays bound to the identifier.
C18_SharedIdentifierLastWins ==
    /\ (ret.op = "to_json_string" /\ ret.out.kind = "return") =>
        LET lines == FieldLines(ret.out.val, K_data)
        IN  \A p \in Colliding :
                /\ p[2] <= Len(lines)
                /\ FieldValue(lines[p[1]], K_data) = javascript_var_name(Added[p[1]])
                /\ FieldValue(lines[p[2]], K_data) = javascript_var_name(Added[p[1]])
    /\ (ret.op = "get_series_js_var_statements" /\ ret.out.kind = "return") =>
        \A p \in Colliding :
            /\ Len(ret.out.val) = Len(Added)
            /\ \A i \in {p[1], p[2]} :
                  ret.out.val[i] =
                      T_var \o javascript_var_name(Added[p[1]]) \o T_assign
                        \o PyRepr(Added[i]._data) \o <<";">>

-----------------------------------------------------------------------------
(* display_in_browser: the order of its steps and the file it leaves.      *)

Displayed == ret.op = "display_in_browser"

\* what the latest call did outside the program, its prints left out
Steps ==
    LET acts == SelectSeq(events, LAMBDA ev : ev.e # "print")
    IN  [i \in 1..Len(acts) |-> acts[i].e]

\* the names of the files that the latest call made
FilesMade == {f.name : f \in files} \ {f.name : f \in ret.on.before}

\* the step of that kind is one step of the latest call, and where it is
StepAt(kind) == CHOOSE i \in 1..Len(Steps) : Steps[i] = kind

\* C20: display_in_browser without a file name creates a temporary file,
\* writes the HTML of the page to it, asks the browser to open it, waits the
\* delay and deletes the file, in this order, so that whenever the call ends
\* the temporary file it created is no longer there; with a file name it
\* writes that file before it asks the browser to open it, and never deletes
\* it.
C20_TemporaryFileGoneWhenCallEnds ==
    Displayed =>
        IF IsNone(ret.on.html_filename)
        THEN /\ ret.out.kind = "return"
                  => Steps = <<"mkstemp", "open", "write", "browser", "sleep", "unlink">>
             /\ FilesMade = {}
        ELSE /\ ret.out.kind = "return"
                  => /\ \E i \in 1..Len(events) :
                            /\ events[i].e = "write"
                            /\ events[i].file = ret.on.html_filename.s
                     /\ StepAt("write") < StepAt("browser")
             /\ \A i \in 1..Len(Steps) : Steps[i] # "unlink"
             /\ \E f \in files : f.name = ret.on.html_filename.s

-----------------------------------------------------------------------------
(* Claims, checked under RefSpec: series changed after they were added.    *)

\* the entries of the document's series list, each the lines between its
\* braces
SeriesEntries(doc) ==
    LET lines == SplitLines(doc)
        opens == {i \in 1..Len(lines) : lines[i] = Spaces(4) \o <<"{">>}
        close(o) == SetMin({j \in (o + 1)..Len(lines) :
                               StartsWith(lines[j], Spaces(4) \o <<"}">>)})
        nth(S, k) == CHOOSE o \in S : Cardinality({p \in S : p < o}) = k - 1
    IN  [k \in 1..Cardinality(opens) |->
            SubSeq(lines, nth(opens, k) + 1, close(nth(opens, k)) - 1)]

\* the values of the type lines of an entry
TypesOfEntry(entry) ==
    LET opens(line) ==
            StartsWith(line, Spaces(6) \o EncodeString(K_type) \o <<":", " ">>)
        lines == SelectSeq(entry, opens)
    IN  [i \in 1..Len(lines) |-> FieldValue(lines[i], K_type)]

\* the dict that an item of the description's series list stands for
ConfigOf(item) == IF item.t = "ref" THEN series[item.id]._series ELSE item

\* C21: the chart description holds the Series' own configuration: the type
\* that set_series_type gave a series after it was added is the type of that
\* series' entry in the next document of to_json_string (and an entry has no
\* type when none was set), and in every state the data field of each entry
\* of the description is the placeholder token, never the data points.
C21_SeriesHeldByReference ==
    /\ DocumentReturned =>
        LET entries == SeriesEntries(ret.out.val)
            inst == Instances(Called, series)
        IN  /\ Len(entries) = Len(inst)
            /\ \A i \in 1..Len(inst) :
                  TypesOfEntry(entries[i])
                    = IF DictHas(inst[i]._series, K_type)
                      THEN <<EncodeString(DictGet(inst[i]._series, K_type).s)>>
                      ELSE <<>>
    /\ \A c \in ChartIds :
          DictHas(charts[c]._chart, K_series) =>
              LET items == DictGet(charts[c]._chart, K_series).items
              IN  \A i \in 1..Len(items) :
                      LET sid == charts[c]._series_instances_list[i]
                          config == ConfigOf(items[i])
                      IN  /\ DictGet(config, K_data)
                               = PyStr(StrReplace(get_name(series[sid]), <<" ">>, <<"_">>)
                                         \o T_placeholder)
                          /\ \A e \in 1..Len(config.items) :
                                config.items[e].v # series[sid]._data

\* C21 witness: a document was returned for a chart of two series, the first
\* with a type set after it was added, the second with none
C21_Witness ==
    /\ DocumentReturned
    /\ Len(series) = 2
    /\ DictHas(series[1]._series, K_type)
    /\ ~DictHas(series[2]._series, K_type)

-----------------------------------------------------------------------------
(* Claims, checked under ChartSpec: create_chart.                          *)

ChartCreated == ret.op = "create_chart" /\ ret.out.kind = "return"

\* the pointFormat of the tooltip of a chart
PointFormat(chart) ==
    DictGet(DictGet(chart._chart, K_tooltip),
            <<"p", "o", "i", "n", "t", "F", "o", "r", "m", "a", "t">>).s

SeriesNameField ==
    <<"{", "s", "e", "r", "i", "e", "s", ".", "n", "a", "m", "e", "}">>

\* C22: the chart of create_chart for one source has the source's name as
\* its title and a tooltip whose point format has no series name; for two or
\* more sources the title is 'Multiple Sources' and the point format has
\* {series.name}; in both cases the chart has one series per source, in the
\* order of the sources list.
C22_PresetsByMultiplicity ==
    ChartCreated =>
        LET chart == ret.out.val.chart
            heap == ret.out.val.series
            sources == ret.on.sources
            title == DictGet(DictGet(chart._chart, K_title), K_text)
        IN  /\ Len(sources) = 1 =>
                  /\ title = PyStr(sources[1])
                  /\ ~Contains(PointFormat(chart), SeriesNameField)
            /\ Len(sources) >= 2 =>
                  /\ title = PyStr(<<"M", "u", "l", "t", "i", "p", "l", "e", " ",
                                     "S", "o", "u", "r", "c", "e", "s">>)
                  /\ Contains(PointFormat(chart), SeriesNameField)
            /\ Len(sources) >= 1 =>
                  LET inst == Instances(chart, heap)
                      items == DictGet(chart._chart, K_series).items
                  IN  /\ Len(inst) = Len(sources)
                      /\ Len(items) = Len(sources)
                      /\ \A i \in 1..Len(sources) :
                            /\ get_name(inst[i]) = sources[i]
                            /\ items[i] = SeriesRef(chart._series_instances_list[i])

\* C22 witness: a chart with two series was made for two different sources
C22_Witness ==
    /\ ChartCreated
    /\ Len(ret.on.sources) = 2
    /\ ret.on.sources[1] # ret.on.sources[2]
    /\ Len(ret.out.val.chart._series_instances_list) = 2

-----------------------------------------------------------------------------
(* Claims, checked under DistinctSpec: series of different names.          *)

\* the name of a series after the space-to-underscore normalization
Normalized(self) == StrReplace(get_name(self), <<" ">>, <<"_">>)

\* the values of a sequence are pairwise different
PairwiseDistinct(s) == \A i, j \in 1..Len(s) : i # j => s[i] # s[j]

\* the identifier that a var statement binds
BoundIdentifier(statement) ==
    LET from == Len(T_var) + 1
        to == SetMin({i \in from..(Len(statement) - Len(T_assign) + 1) :
                         SubSeq(statement, i, i + Len(T_assign) - 1) = T_assign})
    IN  SubSeq(statement, from, to - 1)

\* C23: when the names of the series of a chart are pairwise different after
\* the normalization, so are their variable identifiers: no two var
\* statements bind the same variable and no two data fields of the document
\* hold the same symbol.
C23_DistinctNamesDistinctIdentifiers ==
    LET inst == Instances(charts[1], series)
    IN  PairwiseDistinct([i \in 1..Len(inst) |-> Normalized(inst[i])]) =>
            /\ PairwiseDistinct([i \in 1..Len(inst) |-> Token(inst[i])])
            /\ PairwiseDistinct([i \in 1..Len(inst) |-> javascript_var_name(inst[i])])
            /\ (ret.op = "get_series_js_var_statements" /\ ret.out.kind = "return") =>
                  PairwiseDistinct([i \in 1..Len(ret.out.val) |->
                                       BoundIdentifier(ret.out.val[i])])
            /\ DocumentReturned =>
                  LET lines == FieldLines(ret.out.val, K_data)
                  IN  PairwiseDistinct([i \in 1..Len(lines) |->
                                           FieldValue(lines[i], K_data)])

-----------------------------------------------------------------------------
(* Claims, checked under Spec: the series a chart holds.                   *)

\* the description of the chart and the Series it retains agree: the series
\* key is there exactly when add_series was called, and its list has, in
\* order, the configuration of each retained Series
SeriesAgree ==
    LET chart == charts[1]
        retained == chart._series_instances_list
    IN  /\ DictHas(chart._chart, K_series) <=> Len(series) >= 1
        /\ Len(retained) = Len(series)
        /\ DictHas(chart._chart, K_series) =>
              LET items == DictGet(chart._chart, K_series).items
              IN  /\ Len(items) = Len(retained)
                  /\ \A i \in 1..Len(retained) :
                        /\ items[i] = SeriesRef(retained[i])
                        /\ ConfigOf(items[i]) = series[retained[i]]._series

\* to_json_string returns a document exactly when the series key is there
SerializedWhenSeries ==
    ret.op = "to_json_string" =>
        (DocumentReturned <=> DictHas(Called._chart, K_series))

\* no step takes a series away from the chart or the series key from its
\* description, and a to_json_string that follows one that returned a
\* document returns one
NoSeriesRemoved ==
    LET before == charts[1]._series_instances_list
        after == charts'[1]._series_instances_list
    IN  /\ Len(after) >= Len(before)
        /\ SubSeq(after, 1, Len(before)) = before
        /\ DictHas(charts[1]._chart, K_series) => DictHas(charts'[1]._chart, K_series)
        /\ (DocumentReturned /\ ret'.op = "to_json_string")
              => ret'.out.kind = "return"

\* C24: whatever setters and add_series calls were made on a chart, in any
\* order, the series list of its description and the list of the Series it
\* retains have the same length and the i-th entry is the configuration of
\* the i-th retained Series, and the series key is there exactly when
\* add_series was called; no step removes a series or the series key, and
\* to_json_string returns a document exactly when the key is there, so once
\* it has returned a document it returns one after every later step.
C24_SeriesListsAgree ==
    /\ []SeriesAgree
    /\ []SerializedWhenSeries
    /\ [][NoSeriesRemoved]_vars

\* C24 witness: a document was returned for a chart with two series whose
\* subtitle, tooltip and plot options were set
C24_Witness ==
    /\ DocumentReturned
    /\ Len(Called._series_instances_list) = 2
    /\ DictHas(Called._chart, K_subtitle)
    /\ DictHas(Called._chart, K_tooltip)
    /\ DictHas(Called._chart, K_plotOptions)

-----------------------------------------------------------------------------
(* Claims, checked under FileSpec: a page saved to a file.                 *)

\* C25: if to_file fails because a chart of the page has no series, the
\* file system is as it was before the call, the destination file neither
\* created nor truncated, and the caller gets the error.
C25_FailedSaveLeavesFile ==
    (/\ ret.op = "to_file"
     /\ \E i \in 1..Len(page._charts) : PageChart(i)._series_instances_list = <<>>)
        => /\ NoSeriesRaised
           /\ files = ret.on.before

-----------------------------------------------------------------------------
(* Claims, checked under PageSpec: the elements of the page.               *)

\* a text of the source without the newline that ends it
Line(text) == SubSeq(text, 1, Len(text) - 1)

\* the indexes, in order, of the lines of a text that are this line
LinesAt(lines, line) ==
    LET at == {i \in 1..Len(lines) : lines[i] = line}
        nth(k) == CHOOSE i \in at : Cardinality({j \in at : j < i}) = k - 1
    IN  [k \in 1..Cardinality(at) |-> nth(k)]

\* the last line before line n that is not empty, or the empty line
LastLineBefore(lines, n) ==
    LET full == {i \in 1..(n - 1) : lines[i] # <<>>}
    IN  IF full = {} THEN <<>> ELSE lines[SetMax(full)]

\* every chart of the page has its container element, opened and closed in
\* one line, and after it its script element, closed before the next chart
\* and before line n
ChartElementsClosed(lines, n) ==
    LET divs == {i \in 1..Len(lines) : StartsWith(lines[i], H_div_id)}
        opened_at == LinesAt(lines, Spaces(2) \o Line(H_script))
        closed_at == LinesAt(lines, Spaces(2) \o Line(H_script_end))
    IN  /\ Cardinality(divs) = Len(page._charts)
        /\ \A i \in divs :
              /\ i < n
              /\ SubSeq(lines[i], Len(lines[i]) - 5, Len(lines[i]))
                   = <<"<", "/", "d", "i", "v", ">">>
        /\ Len(opened_at) = Len(page._charts)
        /\ Len(closed_at) = Len(page._charts)
        /\ \A k \in 1..Len(opened_at) :
              /\ opened_at[k] < closed_at[k]
              /\ closed_at[k] < n
              /\ k < Len(opened_at) => closed_at[k] < opened_at[k + 1]

\* C26: every document of to_html closes what its header opened: it ends
\* with the closing body tag and then the closing html tag, and the container
\* and the script element of every chart are closed before them.
C26_ElementsClosed ==
    HtmlReturned =>
        LET lines == SplitLines(ret.out.val)
            n == Len(lines)
        IN  /\ lines[n] = H_html_end
            /\ LastLineBefore(lines, n) = <<"<", "/", "b", "o", "d", "y", ">">>
            /\ ChartElementsClosed(lines, n)

=============================================================================
